---- MODULE Spec2Model ----
(***************************************************************************)
(* MTC formula prover (src/parsers/mtc_formula_prover.py): term algebra,   *)
(* MtcLexer, MtcParser and the MtcProver equivalence engine with its       *)
(* per-prover equivalence cache.                                           *)
(*                                                                         *)
(* A text is a sequence of characters; a character is a one-element        *)
(* string, except for the non-ASCII characters of the notation, which are  *)
(* written by name: "male" (U+2642), "female" (U+2640), "inf" (U+221E),    *)
(* "equiv" (U+2261), "nequiv" (U+2262), "arrow" (U+2192) and "noarrow"     *)
(* (U+219B).  "?" stands for any character the lexer does not know.        *)
(***************************************************************************)
EXTENDS Integers, Sequences, FiniteSets, TLC

VARIABLES equivalence_cache, call, result, ncalls, prover,
          text, position, token, parsed,
          expr1, expr2, answer,
          file_content, line_num, total, passed, failed_lines, report,
          scan_i, scan_result, iterations, resolved_tokens

vars == <<equivalence_cache, call, result, ncalls, prover,
          text, position, token, parsed, expr1, expr2, answer,
          file_content, line_num, total, passed, failed_lines, report,
          scan_i, scan_result, iterations, resolved_tokens>>

proverVars == <<equivalence_cache, call, result, ncalls, prover>>
parseVars == <<text, position, token, parsed>>
equivVars == <<expr1, expr2, answer>>
fileVars == <<file_content, line_num, total, passed, failed_lines, report>>
commaVars == <<scan_i, scan_result, iterations, resolved_tokens>>

(***************************************************************************)
(* Characters                                                              *)
(***************************************************************************)
MALE == "male"
FEMALE == "female"
INF == "inf"
EQUIV == "equiv"
NEQUIV == "nequiv"
ARROW == "arrow"
NOARROW == "noarrow"
NEWLINE == "\n"

Letters == {"a", "b", "c", "p", "q", "r", "v", "x", "y"}
Digits == {"0", "1", "2", "3", "4", "5", "6", "7", "8", "9"}
FormChars == {MALE, FEMALE, INF}

\* unicode.isspace(), isalpha(), isalnum(), isdigit() on the characters above
isspace(c) == c \in {" ", NEWLINE}
isalpha(c) == c \in Letters
isalnum(c) == c \in Letters \cup Digits
isdigit(c) == c \in Digits

DigitValue(c) ==
    CASE c = "0" -> 0 [] c = "1" -> 1 [] c = "2" -> 2 [] c = "3" -> 3
      [] c = "4" -> 4 [] c = "5" -> 5 [] c = "6" -> 6 [] c = "7" -> 7
      [] c = "8" -> 8 [] c = "9" -> 9

DigitChar(d) ==
    CASE d = 0 -> "0" [] d = 1 -> "1" [] d = 2 -> "2" [] d = 3 -> "3"
      [] d = 4 -> "4" [] d = 5 -> "5" [] d = 6 -> "6" [] d = 7 -> "7"
      [] d = 8 -> "8" [] d = 9 -> "9"

\* int(s) for a string of decimal digits
RECURSIVE ToInt(_)
ToInt(s) ==
    IF Len(s) = 0 THEN 0
    ELSE 10 * ToInt(SubSeq(s, 1, Len(s) - 1)) + DigitValue(s[Len(s)])

\* str(n) for an integer n >= 0
RECURSIVE IntStr(_)
IntStr(n) ==
    IF n < 10 THEN <<DigitChar(n)>>
    ELSE IntStr(n \div 10) \o <<DigitChar(n % 10)>>

(***************************************************************************)
(* Term algebra (classes Symbol .. ComplexClosure).  Python's == on terms  *)
(* is structural equality of the class and its fields, which is equality   *)
(* of these records.                                                       *)
(***************************************************************************)
Symbol(name) == [tag |-> "Symbol", name |-> name]
Connection(reference, value) ==
    [tag |-> "Connection", reference |-> reference, value |-> value]
AbitStart == [tag |-> "AbitStart"]
AbitEnd == [tag |-> "AbitEnd"]
AbitConnect == [tag |-> "AbitConnect"]
AbitDisconnect == [tag |-> "AbitDisconnect"]
AssociativeRoot == [tag |-> "AssociativeRoot"]
ConnectionForm(form_type) == [tag |-> "ConnectionForm", form_type |-> form_type]
NegationExpression(expression) ==
    [tag |-> "NegationExpression", expression |-> expression]
PowerLoopExpression(base, exponent) ==
    [tag |-> "PowerLoopExpression", base |-> base, exponent |-> exponent]
ComplexClosure(parts) == [tag |-> "ComplexClosure", parts |-> parts]

isinstance(e, cls) == e.tag = cls

REF == ConnectionForm("REF")
VAL == ConnectionForm("VAL")

RECURSIVE Flatten(_)
Flatten(ss) == IF Len(ss) = 0 THEN << >> ELSE Head(ss) \o Flatten(Tail(ss))

\* __str__ of every class; __repr__ is __str__
RECURSIVE Str(_)
Str(e) ==
    CASE e.tag = "Symbol" -> e.name
      [] e.tag = "Connection" ->
            <<"(">> \o Str(e.reference) \o <<ARROW>> \o Str(e.value) \o <<")">>
      [] e.tag = "AbitStart" -> <<"(">>
      [] e.tag = "AbitEnd" -> <<")">>
      [] e.tag = "AbitConnect" -> <<"+">>
      [] e.tag = "AbitDisconnect" -> <<"-">>
      [] e.tag = "AssociativeRoot" -> <<INF>>
      [] e.tag = "ConnectionForm" ->
            (CASE e.form_type = "REF" -> <<MALE>>
               [] e.form_type = "VAL" -> <<FEMALE>>
               [] e.form_type = "ARROW" -> <<ARROW>>
               [] e.form_type = "NEGATION" -> <<"-">>
               [] OTHER -> <<"unknown_form">>)
      [] e.tag = "NegationExpression" -> <<"-">> \o Str(e.expression)
      [] e.tag = "PowerLoopExpression" ->
            Str(e.base) \o <<"^">> \o IntStr(e.exponent)
      [] e.tag = "ComplexClosure" ->
            Flatten([i \in 1..Len(e.parts) |-> Str(e.parts[i])])

(***************************************************************************)
(* MtcLexer.  The cursor is the 1-based index of current_char;             *)
(* current_char is None exactly when the cursor is past the end.           *)
(***************************************************************************)
Token(type, value, pos) == [type |-> type, value |-> value, pos |-> pos]

\* MtcLexer.__init__: the cursor on the first character
LexerInit == 1

current_char_at(txt, pos) == IF pos <= Len(txt) THEN txt[pos] ELSE ""

peek_ahead(txt, pos) == IF pos + 1 <= Len(txt) THEN txt[pos + 1] ELSE ""

\* a lexer that skips nothing
skip_nothing(txt, pos) == pos

RECURSIVE skip_whitespace(_, _)
skip_whitespace(txt, pos) ==
    IF pos <= Len(txt) /\ isspace(txt[pos])
    THEN skip_whitespace(txt, pos + 1)
    ELSE pos

\* while current_char and (current_char.isalnum() or current_char == '_'): advance
RECURSIVE SymbolEnd(_, _)
SymbolEnd(txt, pos) ==
    IF pos <= Len(txt) /\ (isalnum(txt[pos]) \/ txt[pos] = "_")
    THEN SymbolEnd(txt, pos + 1)
    ELSE pos

\* while current_char and current_char in the three form characters: advance
RECURSIVE FormEnd(_, _)
FormEnd(txt, pos) ==
    IF pos <= Len(txt) /\ txt[pos] \in FormChars
    THEN FormEnd(txt, pos + 1)
    ELSE pos

\* the text read and the cursor after it
read_complex_closure(txt, pos) ==
    LET p1 == FormEnd(txt, pos) IN
    IF p1 > pos
    THEN LET p2 == IF p1 <= Len(txt) /\ isalpha(txt[p1])
                   THEN SymbolEnd(txt, p1) ELSE p1
             p3 == FormEnd(txt, p2)
         IN  [value |-> SubSeq(txt, pos, p3 - 1), pos |-> p3]
    ELSE IF pos <= Len(txt) /\ isalpha(txt[pos])
         THEN LET p2 == SymbolEnd(txt, pos)
                  p3 == FormEnd(txt, p2)
              IN  [value |-> SubSeq(txt, pos, p3 - 1), pos |-> p3]
         ELSE [value |-> << >>, pos |-> pos]

\* the '-' branch with no regard for a blank after the '-'
MinusTokenEager(txt, p) ==
    LET peek == peek_ahead(txt, p) IN
    IF peek # "" /\ peek = ">"
    THEN Token("ARROW_UNICODE", <<"-", ">">>, p + 2)
    ELSE IF peek # "" /\ peek \notin {"=", ">"}
         THEN Token("NEGATION", <<"-">>, p + 1)
         ELSE Token("ABIT_DISCONNECT", <<"-">>, p + 1)

\* the '-' branch of get_next_token
MinusToken(txt, p) ==
    LET peek == peek_ahead(txt, p) IN
    IF peek # "" /\ peek = ">"
    THEN Token("ARROW_UNICODE", <<"-", ">">>, p + 2)
    ELSE IF peek # "" /\ peek \notin {"=", ">"} /\ ~isspace(peek)
         THEN Token("NEGATION", <<"-">>, p + 1)
         ELSE Token("ABIT_DISCONNECT", <<"-">>, p + 1)

\* the plain SYMBOL branch, and the ValueError for an unknown character
SymbolToken(txt, p) ==
    IF isalnum(txt[p]) \/ txt[p] = "_"
    THEN Token("SYMBOL", SubSeq(txt, p, SymbolEnd(txt, p) - 1), SymbolEnd(txt, p))
    ELSE Token("ERROR", <<txt[p]>>, p)

\* the form-character branch taking a single form character for a closure
FormTokenOfOne(txt, p) ==
    LET r == read_complex_closure(txt, p) IN
    IF Len(r.value) > 0 THEN Token("COMPLEX_CLOSURE", r.value, r.pos)
    ELSE SymbolToken(txt, r.pos)

\* the branch for a token that starts with a form character
FormToken(txt, p) ==
    LET r == read_complex_closure(txt, p) IN
    IF Len(r.value) > 1 THEN Token("COMPLEX_CLOSURE", r.value, r.pos)
    ELSE IF r.value = <<INF>> THEN Token("ASSOCIATIVE_ROOT", r.value, r.pos)
    ELSE IF r.value = <<MALE>> THEN Token("FORM_REF", r.value, r.pos)
    ELSE IF r.value = <<FEMALE>> THEN Token("FORM_VAL", r.value, r.pos)
    ELSE SymbolToken(txt, r.pos)

\* the look-ahead for a symbol followed by form characters
AlphaToken(txt, p) ==
    LET pS == SymbolEnd(txt, p)
        pF == FormEnd(txt, pS)
    IN  IF pF > pS
        THEN Token("COMPLEX_CLOSURE", SubSeq(txt, p, pF - 1), pF)
        ELSE SymbolToken(txt, p)

\* MtcLexer.get_next_token: the token returned and the cursor after the call;
\* type "ERROR" is the ValueError raised for an unknown character
get_next_token(txt, pos) ==
    LET p == skip_whitespace(txt, pos) IN
    IF p > Len(txt) THEN Token("EOF", << >>, p)
    ELSE LET c == txt[p] IN
         CASE c = "(" -> Token("ABIT_START", <<"(">>, p + 1)
           [] c = ")" -> Token("ABIT_END", <<")">>, p + 1)
           [] c = "+" -> Token("ABIT_CONNECT", <<"+">>, p + 1)
           [] c = "-" -> MinusToken(txt, p)
           [] c = "=" -> IF peek_ahead(txt, p) = "="
                         THEN Token("EQUALS", <<"=", "=">>, p + 2)
                         ELSE Token("EQUALS", <<"=">>, p + 1)
           [] c = "!" /\ peek_ahead(txt, p) = "=" ->
                         Token("NOT_EQUALS", <<"!", "=">>, p + 2)
           [] c = "^" -> Token("POWER_LOOP", <<"^">>, p + 1)
           [] c = EQUIV -> Token("EQUALS", <<"=", "=">>, p + 1)
           [] c = NEQUIV -> Token("NOT_EQUALS", <<"!", "=">>, p + 1)
           [] c = ARROW -> Token("ARROW_UNICODE", <<ARROW>>, p + 1)
           [] c = NOARROW -> Token("ARROW_DISCONNECT", <<",">>, p + 1)
           [] isalpha(c) -> AlphaToken(txt, p)
           [] c \in FormChars -> FormToken(txt, p)
           [] OTHER -> SymbolToken(txt, p)

\* the tokens the parser is handed by successive get_next_token calls, up to
\* and including EOF or the ValueError
RECURSIVE Tokenize(_, _)
Tokenize(txt, pos) ==
    LET t == get_next_token(txt, pos) IN
    IF t.type \in {"EOF", "ERROR"} THEN <<t>>
    ELSE <<t>> \o Tokenize(txt, t.pos)

(***************************************************************************)
(* MtcParser over the token sequence toks; i is the index of               *)
(* current_token.  A parse function returns ok = FALSE when it raises      *)
(* ValueError, and otherwise the term built and the index of the token it  *)
(* leaves current.  MtcParser.eat fetches one token, so a ValueError of    *)
(* the lexer surfaces when the parser moves onto the "ERROR" token; that   *)
(* token ends toks, matches no production and is never EOF.                *)
(***************************************************************************)
Parsed(expr, i) == [ok |-> TRUE, expr |-> expr, i |-> i]
Raised(i) == [ok |-> FALSE, expr |-> AbitStart, i |-> i]

FormPart(c) ==
    IF c = MALE THEN REF ELSE IF c = FEMALE THEN VAL ELSE AssociativeRoot

RECURSIVE NonFormEnd(_, _)
NonFormEnd(s, i) ==
    IF i <= Len(s) /\ s[i] \notin FormChars THEN NonFormEnd(s, i + 1) ELSE i

RECURSIVE ClosureParts(_, _)
ClosureParts(s, i) ==
    IF i > Len(s) THEN << >>
    ELSE IF s[i] \in FormChars
         THEN <<FormPart(s[i])>> \o ClosureParts(s, i + 1)
         ELSE <<Symbol(SubSeq(s, i, NonFormEnd(s, i) - 1))>>
                  \o ClosureParts(s, NonFormEnd(s, i))

parse_complex_closure(closure_text) ==
    ComplexClosure(ClosureParts(closure_text, 1))

SequenceStart == {"SYMBOL", "ASSOCIATIVE_ROOT", "ABIT_START", "ABIT_END",
                  "ABIT_CONNECT", "ABIT_DISCONNECT", "FORM_REF", "FORM_VAL",
                  "COMPLEX_CLOSURE", "NEGATION", "POWER_LOOP"}

\* value.isdigit() of a SYMBOL token
IsDigitString(s) == Len(s) > 0 /\ \A k \in 1..Len(s) : isdigit(s[k])

\* the "() == root" folding of parse_sequence, applied to a parsed operand
FoldAbitPair(toks, r) ==
    IF r.ok /\ isinstance(r.expr, "AbitStart") /\ toks[r.i].type = "ABIT_END"
    THEN Parsed(AssociativeRoot, r.i + 1)
    ELSE r

\* -expr once the operand r is parsed
Negated(r) ==
    IF r.ok THEN Parsed(NegationExpression(r.expr), r.i) ELSE r

\* the (expr) arm once expr is parsed: ")" is eaten when it is there
Parenthesized(toks, r) ==
    IF r.ok /\ toks[r.i].type = "ABIT_END" THEN Parsed(r.expr, r.i + 1) ELSE r

\* left -> right once the right operand is parsed
Connect(left, right) ==
    IF right.ok THEN Parsed(Connection(left.expr, right.expr), right.i)
    ELSE right

RECURSIVE parse_primary(_, _), parse_power_loop(_, _), PowerLoopTail(_, _),
          parse_sequence(_, _), SequenceTail(_, _),
          parse_connection(_, _), ConnectionTail(_, _)

\* a token that starts no primary taken for a term and passed over
UnexpectedAccepted(toks, i) ==
    Parsed(AssociativeRoot, IF toks[i].type = "EOF" THEN i ELSE i + 1)

\* a token that starts no primary taken for a term and left in place
UnexpectedStays(toks, i) == Parsed(AssociativeRoot, i)

\* the else arm of parse_primary: raise ValueError
Unexpected(toks, i) == Raised(i)

\* "(" read as opening a group whatever follows it
GroupAlways(toks, i) == Parenthesized(toks, parse_connection(toks, i + 1))

\* the ABIT_START arm of parse_primary: "()" is the root, "(" opens a group
GroupOrRoot(toks, i) ==
    IF toks[i + 1].type = "ABIT_END"
    THEN Parsed(AssociativeRoot, i + 2)
    ELSE Parenthesized(toks, parse_connection(toks, i + 1))

parse_primary(toks, i) ==
    LET t == toks[i].type IN
    CASE t = "NEGATION" -> Negated(parse_primary(toks, i + 1))
      [] t = "SYMBOL" -> Parsed(Symbol(toks[i].value), i + 1)
      [] t = "ASSOCIATIVE_ROOT" -> Parsed(AssociativeRoot, i + 1)
      [] t = "ABIT_START" -> GroupOrRoot(toks, i)
      [] t = "ABIT_END" -> Parsed(AbitEnd, i + 1)
      [] t = "ABIT_CONNECT" -> Parsed(AbitConnect, i + 1)
      [] t = "ABIT_DISCONNECT" -> Parsed(AbitDisconnect, i + 1)
      [] t = "FORM_REF" -> Parsed(REF, i + 1)
      [] t = "FORM_VAL" -> Parsed(VAL, i + 1)
      [] t = "ARROW_UNICODE" -> Parsed(ConnectionForm("ARROW"), i + 1)
      [] t = "COMPLEX_CLOSURE" ->
            Parsed(parse_complex_closure(toks[i].value), i + 1)
      [] OTHER -> Unexpected(toks, i)

\* the while loop of parse_power_loop, entered with the parsed primary r
PowerLoopTail(toks, r) ==
    IF ~r.ok \/ toks[r.i].type # "POWER_LOOP" THEN r
    ELSE IF toks[r.i + 1].type = "SYMBOL"
            /\ IsDigitString(toks[r.i + 1].value)
         THEN PowerLoopTail(toks,
                  Parsed(PowerLoopExpression(r.expr,
                                             ToInt(toks[r.i + 1].value)),
                         r.i + 2))
         ELSE Raised(r.i + 1)

parse_power_loop(toks, i) == PowerLoopTail(toks, parse_primary(toks, i))

\* the loop of parse_sequence folding to the right: a b c as a -> (b -> c)
SequenceTailRight(toks, r) ==
    IF ~r.ok \/ toks[r.i].type \notin SequenceStart THEN r
    ELSE IF toks[r.i].type \in {"ABIT_END", "ARROW_UNICODE"} THEN r
    ELSE Connect(r, SequenceTail(toks,
                        FoldAbitPair(toks, parse_power_loop(toks, r.i))))

\* the while loop of parse_sequence, entered with the parsed first operand r
SequenceTail(toks, r) ==
    IF ~r.ok \/ toks[r.i].type \notin SequenceStart THEN r
    ELSE IF toks[r.i].type \in {"ABIT_END", "ARROW_UNICODE"} THEN r
    ELSE SequenceTail(toks,
             Connect(r, FoldAbitPair(toks, parse_power_loop(toks, r.i))))

parse_sequence(toks, i) ==
    SequenceTail(toks, FoldAbitPair(toks, parse_power_loop(toks, i)))

\* the loop of parse_connection folding to the right: a -> b -> c as
\* a -> (b -> c)
ConnectionTailRight(toks, left) ==
    IF ~left.ok \/ toks[left.i].type # "ARROW_UNICODE" THEN left
    ELSE Connect(left, parse_connection(toks, left.i + 1))

\* the while loop of parse_connection, entered with the parsed left operand
ConnectionTail(toks, left) ==
    IF ~left.ok \/ toks[left.i].type # "ARROW_UNICODE" THEN left
    ELSE ConnectionTail(toks,
             Connect(left, parse_sequence(toks, left.i + 1)))

parse_connection(toks, i) == ConnectionTail(toks, parse_sequence(toks, i))

ValueError == [kind |-> "ValueError"]

\* the tuple parse_equation returns for "left op right"
EquationOf(op, left, right) ==
    IF ~right.ok THEN [ok |-> FALSE, res |-> ValueError, i |-> right.i]
    ELSE [ok |-> TRUE,
          res |-> [kind |-> IF op = "EQUALS" THEN "EQUATION"
                            ELSE "NOT_EQUATION",
                   left |-> left.expr, right |-> right.expr],
          i |-> right.i]

\* parse_equation after its left side is parsed
EquationTail(toks, left) ==
    IF ~left.ok THEN [ok |-> FALSE, res |-> ValueError, i |-> left.i]
    ELSE IF toks[left.i].type \in {"EQUALS", "NOT_EQUALS"}
         THEN EquationOf(toks[left.i].type, left,
                         parse_connection(toks, left.i + 1))
         ELSE [ok |-> TRUE,
               res |-> [kind |-> "EXPRESSION", left |-> left.expr],
               i |-> left.i]

\* parse_equation: the tuple returned and the index of the current token
parse_equation(toks, i) == EquationTail(toks, parse_connection(toks, i))

\* the EOF check of parse on what parse_equation returned
EndOfInput(toks, r) ==
    IF r.ok /\ toks[r.i].type = "EOF" THEN r.res ELSE ValueError

ParseTokens(toks) == EndOfInput(toks, parse_equation(toks, 1))

\* MtcParser(MtcLexer(text)).parse(): the tuple returned, or ValueError
parse(txt) == ParseTokens(Tokenize(txt, LexerInit))

(***************************************************************************)
(* MtcProver: the axiom checks.  Each takes the two terms in the order     *)
(* the caller gave them; a check written twice in the source, once per     *)
(* direction, is one operator applied in both directions.                  *)
(***************************************************************************)
Last(s) == s[Len(s)]
Front(s) == SubSeq(s, 1, Len(s) - 1)
Rest(s) == SubSeq(s, 2, Len(s))

IsForm(part, form_type) ==
    isinstance(part, "ConnectionForm") /\ part.form_type = form_type

MaleInfFemale == <<MALE, INF, FEMALE>>

\* the merger without its test of the number of parts: any closure from
\* REF to VAL folds to the root
MergerOfAnyLength(closure, root) ==
    /\ isinstance(closure, "ComplexClosure")
    /\ Len(closure.parts) >= 2
    /\ IsForm(closure.parts[1], "REF")
    /\ IsForm(Last(closure.parts), "VAL")
    /\ isinstance(root, "AssociativeRoot")

\* closure is the two-part closure REF VAL and root the associative root
MergerOfRecursions(closure, root) ==
    /\ isinstance(closure, "ComplexClosure")
    /\ Len(closure.parts) = 2
    /\ IsForm(closure.parts[1], "REF")
    /\ IsForm(closure.parts[2], "VAL")
    /\ isinstance(root, "AssociativeRoot")

check_merger_of_recursions(e1, e2) ==
    MergerOfRecursions(e1, e2) \/ MergerOfRecursions(e2, e1)

\* the negated reference closure matched by shape alone, whatever it closes
NegatedReferenceOfAny(neg, closure) ==
    /\ isinstance(neg, "NegationExpression")
    /\ isinstance(closure, "ComplexClosure")
    /\ isinstance(neg.expression, "ComplexClosure")
    /\ Len(neg.expression.parts) >= 2
    /\ IsForm(neg.expression.parts[1], "REF")
    /\ Len(neg.expression.parts) = Len(closure.parts)
    /\ IsForm(Last(closure.parts), "VAL")

\* -(REF x) == x VAL
NegatedReference(neg, closure) ==
    /\ isinstance(neg, "NegationExpression")
    /\ isinstance(closure, "ComplexClosure")
    /\ isinstance(neg.expression, "ComplexClosure")
    /\ Len(neg.expression.parts) >= 2
    /\ IsForm(neg.expression.parts[1], "REF")
    /\ Len(neg.expression.parts) = Len(closure.parts)
    /\ IsForm(Last(closure.parts), "VAL")
    /\ Rest(neg.expression.parts) = Front(closure.parts)

\* -(x VAL) == REF x
NegatedValue(neg, closure) ==
    /\ isinstance(neg, "NegationExpression")
    /\ isinstance(closure, "ComplexClosure")
    /\ isinstance(neg.expression, "ComplexClosure")
    /\ Len(neg.expression.parts) >= 2
    /\ IsForm(Last(neg.expression.parts), "VAL")
    /\ Len(neg.expression.parts) = Len(closure.parts)
    /\ IsForm(closure.parts[1], "REF")
    /\ Front(neg.expression.parts) = Rest(closure.parts)

\* -(REF root) == root VAL
NegatedReferenceRoot(neg, closure) ==
    /\ isinstance(neg, "NegationExpression")
    /\ isinstance(neg.expression, "ComplexClosure")
    /\ Len(neg.expression.parts) = 2
    /\ IsForm(neg.expression.parts[1], "REF")
    /\ isinstance(neg.expression.parts[2], "AssociativeRoot")
    /\ isinstance(closure, "ComplexClosure")
    /\ Len(closure.parts) = 2
    /\ isinstance(closure.parts[1], "AssociativeRoot")
    /\ IsForm(closure.parts[2], "VAL")

\* -(REF REF x) == REF x VAL
NegatedDoubleReference(neg, closure) ==
    /\ isinstance(neg, "NegationExpression")
    /\ isinstance(neg.expression, "ComplexClosure")
    /\ Len(neg.expression.parts) = 3
    /\ IsForm(neg.expression.parts[1], "REF")
    /\ IsForm(neg.expression.parts[2], "REF")
    /\ isinstance(closure, "ComplexClosure")
    /\ Len(closure.parts) = 3
    /\ IsForm(closure.parts[1], "REF")
    /\ IsForm(closure.parts[3], "VAL")
    /\ isinstance(neg.expression.parts[3], "Symbol")
    /\ isinstance(closure.parts[2], "Symbol")
    /\ neg.expression.parts[3].name = closure.parts[2].name

\* -(REF x VAL) == REF REF x
NegatedReferenceValue(neg, closure) ==
    /\ isinstance(neg, "NegationExpression")
    /\ isinstance(neg.expression, "ComplexClosure")
    /\ Len(neg.expression.parts) = 3
    /\ IsForm(neg.expression.parts[1], "REF")
    /\ IsForm(neg.expression.parts[3], "VAL")
    /\ isinstance(closure, "ComplexClosure")
    /\ Len(closure.parts) = 3
    /\ IsForm(closure.parts[1], "REF")
    /\ IsForm(closure.parts[2], "REF")
    /\ isinstance(neg.expression.parts[2], "Symbol")
    /\ isinstance(closure.parts[3], "Symbol")
    /\ neg.expression.parts[2].name = closure.parts[3].name

check_negation_rules(e1, e2) ==
    \/ NegatedReference(e1, e2) \/ NegatedReference(e2, e1)
    \/ NegatedValue(e1, e2) \/ NegatedValue(e2, e1)
    \/ NegatedReferenceRoot(e1, e2) \/ NegatedReferenceRoot(e2, e1)
    \/ NegatedDoubleReference(e1, e2) \/ NegatedDoubleReference(e2, e1)
    \/ NegatedReferenceValue(e1, e2) \/ NegatedReferenceValue(e2, e1)

\* all(c == base.name for c in text) for a Symbol base
is_repeated_char_pattern(txt, base) ==
    /\ isinstance(base, "Symbol")
    /\ \A k \in 1..Len(txt) : <<txt[k]>> = base.name

\* the pattern checks that follow the two expansions in _check_power_loop_rules
PowerLoopSpecialCase(power, other) ==
    /\ isinstance(power, "PowerLoopExpression")
    /\ \/ /\ power.exponent = 2
          /\ isinstance(other, "Connection")
          /\ other.reference = power.base
          /\ other.value = power.base
       \/ /\ power.exponent = 3
          /\ isinstance(other, "Connection")
          /\ isinstance(other.reference, "Connection")
          /\ other.reference.reference = power.base
          /\ other.reference.value = power.base
          /\ other.value = power.base
       \/ /\ isinstance(other, "Symbol")
          /\ is_repeated_char_pattern(other.name, power.base)
          /\ Len(other.name) = power.exponent

\* _expand_power_loop recurses on exponent - 1 until it meets 1 or 2: from an
\* exponent below 1 it never does, and Python ends it with RecursionError
ExpandRaises(power) == power.exponent < 1

RECURSIVE expand_power_loop(_)
\* the expansion folding to the right: a^n as a -> (a -> ... -> a)
expand_power_loop_right(power) ==
    IF power.exponent = 1 THEN power.base
    ELSE IF power.exponent = 2 THEN Connection(power.base, power.base)
    ELSE Connection(
             power.base,
             expand_power_loop(PowerLoopExpression(power.base, power.exponent - 1)))

expand_power_loop(power) ==
    IF power.exponent = 1 THEN power.base
    ELSE IF power.exponent = 2 THEN Connection(power.base, power.base)
    ELSE Connection(
             expand_power_loop(PowerLoopExpression(power.base, power.exponent - 1)),
             power.base)

\* _check_closure_decomposition_rule, one direction: the text compared with
\* str(small) is "(", male, inf, ")", female
ClosureDecomposition(closure, other) ==
    /\ isinstance(closure, "ComplexClosure")
    /\ Len(closure.parts) = 3
    /\ \/ /\ isinstance(other, "ComplexClosure")
          /\ Len(other.parts) = 2
          /\ Str(closure) = MaleInfFemale
          /\ Str(other) = <<"(", MALE, INF, ")", FEMALE>>
       \/ /\ isinstance(other, "Connection")
          /\ Str(closure) = MaleInfFemale

check_closure_decomposition_rule(e1, e2) ==
    ClosureDecomposition(e1, e2) \/ ClosureDecomposition(e2, e1)

\* the connection is (closure without its last part) -> closure
UnfoldsLastPart(closure, conn) ==
    /\ isinstance(conn.reference, "ComplexClosure")
    /\ isinstance(conn.value, "ComplexClosure")
    /\ Len(conn.reference.parts) = Len(closure.parts) - 1
    /\ conn.reference.parts = Front(closure.parts)
    /\ conn.value.parts = closure.parts

\* the closure ends with n VAL parts
EndsWithValues(closure, n) ==
    /\ Len(closure.parts) >= n
    /\ \A k \in 0..(n - 1) : IsForm(closure.parts[Len(closure.parts) - k], "VAL")

\* r VAL == r -> r VAL for a Symbol r
SymbolValueUnfolding(closure, conn) ==
    /\ Len(closure.parts) = 2
    /\ IsForm(closure.parts[2], "VAL")
    /\ isinstance(closure.parts[1], "Symbol")
    /\ isinstance(conn.reference, "Symbol")
    /\ isinstance(conn.value, "ComplexClosure")
    /\ Len(conn.value.parts) = 2
    /\ isinstance(conn.value.parts[1], "Symbol")
    /\ IsForm(conn.value.parts[2], "VAL")
    /\ conn.reference = closure.parts[1]
    /\ conn.value.parts[1] = closure.parts[1]

\* the parts are n REF forms followed by one Symbol
IsReferenceRun(parts, n) ==
    /\ Len(parts) = n + 1
    /\ \A k \in 1..n : IsForm(parts[k], "REF")
    /\ isinstance(parts[n + 1], "Symbol")

\* REF v == REF v -> v
ReferenceUnfolding1(closure, conn) ==
    /\ IsReferenceRun(closure.parts, 1)
    /\ isinstance(conn.reference, "ComplexClosure")
    /\ isinstance(conn.value, "Symbol")
    /\ IsReferenceRun(conn.reference.parts, 1)
    /\ conn.reference.parts[2] = closure.parts[2]
    /\ conn.value = closure.parts[2]

\* REF^n v == REF^n v -> REF^(n-1) v, written out in the source for n = 2, 3
ReferenceUnfoldingN(closure, conn, n) ==
    /\ IsReferenceRun(closure.parts, n)
    /\ isinstance(conn.reference, "ComplexClosure")
    /\ isinstance(conn.value, "ComplexClosure")
    /\ IsReferenceRun(conn.reference.parts, n)
    /\ conn.reference.parts[n + 1] = closure.parts[n + 1]
    /\ IsReferenceRun(conn.value.parts, n - 1)
    /\ conn.value.parts[n] = closure.parts[n + 1]

\* root VAL == root -> root VAL
RootValueUnfolding(closure, conn) ==
    /\ Len(closure.parts) = 2
    /\ isinstance(closure.parts[1], "AssociativeRoot")
    /\ IsForm(closure.parts[2], "VAL")
    /\ isinstance(conn.reference, "AssociativeRoot")
    /\ isinstance(conn.value, "ComplexClosure")
    /\ Len(conn.value.parts) = 2
    /\ isinstance(conn.value.parts[1], "AssociativeRoot")
    /\ IsForm(conn.value.parts[2], "VAL")

\* _check_closure_composition_rule, one direction
ClosureComposition(closure, conn) ==
    /\ isinstance(closure, "ComplexClosure")
    /\ isinstance(conn, "Connection")
    /\ \/ EndsWithValues(closure, 1) /\ UnfoldsLastPart(closure, conn)
       \/ EndsWithValues(closure, 2) /\ UnfoldsLastPart(closure, conn)
       \/ EndsWithValues(closure, 3) /\ UnfoldsLastPart(closure, conn)
       \/ SymbolValueUnfolding(closure, conn)
       \/ ReferenceUnfolding1(closure, conn)
       \/ ReferenceUnfoldingN(closure, conn, 2)
       \/ ReferenceUnfoldingN(closure, conn, 3)
       \/ RootValueUnfolding(closure, conn)

check_closure_composition_rule(e1, e2) ==
    ClosureComposition(e1, e2) \/ ClosureComposition(e2, e1)

IsMaleInfFemale(e) ==
    isinstance(e, "ComplexClosure") /\ Str(e) = MaleInfFemale

MtcClosureExpansion(closure, conn) ==
    /\ isinstance(closure, "ComplexClosure")
    /\ isinstance(conn, "Connection")
    /\ Len(closure.parts) = 3
    /\ Str(closure) = MaleInfFemale
    /\ IsMaleInfFemale(conn.value)

check_mtc_closure_expansion(e1, e2) ==
    MtcClosureExpansion(e1, e2) \/ MtcClosureExpansion(e2, e1)

NestedClosure(closure, conn) ==
    /\ isinstance(closure, "ComplexClosure")
    /\ isinstance(conn, "Connection")
    /\ Len(closure.parts) = 3
    /\ Str(closure) = MaleInfFemale
    /\ isinstance(conn.reference, "Connection")
    /\ IsMaleInfFemale(conn.value)
    /\ isinstance(conn.reference.value, "AssociativeRoot")

check_nested_closure_rule(e1, e2) ==
    NestedClosure(e1, e2) \/ NestedClosure(e2, e1)

MetaSelfClosure(closure, conn) ==
    /\ isinstance(closure, "ComplexClosure")
    /\ Len(closure.parts) = 2
    /\ isinstance(conn, "Connection")
    /\ isinstance(conn.value, "AssociativeRoot")

check_meta_self_closure(e1, e2) ==
    MetaSelfClosure(e1, e2) \/ MetaSelfClosure(e2, e1)

\* the chain test that looks at the value only
ends_with_infinity(e) ==
    isinstance(e, "Connection") /\ isinstance(e.value, "AssociativeRoot")

RECURSIVE is_infinity_chain(_)
is_infinity_chain(e) ==
    IF ~isinstance(e, "Connection") THEN FALSE
    ELSE LET ref_is_infinity == isinstance(e.reference, "AssociativeRoot")
             ref_is_chain == isinstance(e.reference, "Connection")
                                 /\ is_infinity_chain(e.reference)
         IN  IF ~(ref_is_infinity \/ ref_is_chain) THEN FALSE
             ELSE isinstance(e.value, "AssociativeRoot")

check_extended_self_closure(e1, e2) ==
    IF isinstance(e1, "AssociativeRoot") /\ isinstance(e2, "Connection")
    THEN is_infinity_chain(e2)
    ELSE IF isinstance(e2, "AssociativeRoot") /\ isinstance(e1, "Connection")
    THEN is_infinity_chain(e1)
    ELSE /\ isinstance(e1, "Connection")
         /\ isinstance(e2, "Connection")
         /\ is_infinity_chain(e1)
         /\ is_infinity_chain(e2)

IsSymbolNamed(e, c) == isinstance(e, "Symbol") /\ e.name = <<c>>

\* rv == r -> v for a two-character symbol
ExistenceAxiom(sym, conn) ==
    /\ isinstance(sym, "Symbol")
    /\ isinstance(conn, "Connection")
    /\ Len(sym.name) = 2
    /\ conn.reference = Symbol(<<sym.name[1]>>)
    /\ conn.value = Symbol(<<sym.name[2]>>)

\* aaa == (a -> a) -> a and aaaa == ((a -> a) -> a) -> a
SymbolExpansionAxiom(sym, conn) ==
    /\ isinstance(sym, "Symbol")
    /\ isinstance(conn, "Connection")
    /\ Len(sym.name) >= 3
    /\ \A k \in 1..Len(sym.name) : sym.name[k] = sym.name[1]
    /\ \/ /\ Len(sym.name) = 3
          /\ isinstance(conn.reference, "Connection")
          /\ IsSymbolNamed(conn.reference.reference, sym.name[1])
          /\ IsSymbolNamed(conn.reference.value, sym.name[1])
          /\ IsSymbolNamed(conn.value, sym.name[1])
       \/ /\ Len(sym.name) = 4
          /\ isinstance(conn.reference, "Connection")
          /\ isinstance(conn.reference.reference, "Connection")
          /\ IsSymbolNamed(conn.reference.reference.reference, sym.name[1])
          /\ IsSymbolNamed(conn.reference.reference.value, sym.name[1])
          /\ IsSymbolNamed(conn.reference.value, sym.name[1])
          /\ IsSymbolNamed(conn.value, sym.name[1])

\* ( ) == root, for a Connection of the two abits
AbitPairAxiom(conn, root) ==
    /\ isinstance(conn, "Connection")
    /\ isinstance(conn.reference, "AbitStart")
    /\ isinstance(conn.value, "AbitEnd")
    /\ isinstance(root, "AssociativeRoot")

\* root == root -> root
BasicSelfClosure(root, conn) ==
    /\ isinstance(root, "AssociativeRoot")
    /\ isinstance(conn, "Connection")
    /\ isinstance(conn.reference, "AssociativeRoot")
    /\ isinstance(conn.value, "AssociativeRoot")

Abits == {"AbitStart", "AbitEnd", "AbitConnect", "AbitDisconnect"}

check_basic_axioms(e1, e2) ==
    \/ ExistenceAxiom(e1, e2) \/ ExistenceAxiom(e2, e1)
    \/ SymbolExpansionAxiom(e1, e2) \/ SymbolExpansionAxiom(e2, e1)
    \/ AbitPairAxiom(e1, e2) \/ AbitPairAxiom(e2, e1)
    \/ BasicSelfClosure(e1, e2) \/ BasicSelfClosure(e2, e1)
    \/ (e1.tag \in Abits /\ e2.tag \in Abits /\ e1.tag = e2.tag)

(***************************************************************************)
(* MtcProver.equivalent and the checks that call it back.  The cache is a  *)
(* function from <<repr(expr1), repr(expr2)>> to the stored boolean; every *)
(* operator returns the cache as the call leaves it.  raised = TRUE is an  *)
(* exception (RecursionError) leaving the call.                            *)
(***************************************************************************)
EmptyCache == << >>

Returned(val, cache) == [raised |-> FALSE, val |-> val, cache |-> cache]
RaisedError(cache) == [raised |-> TRUE, val |-> FALSE, cache |-> cache]

CacheKey(e1, e2) == <<Str(e1), Str(e2)>>

\* the checks of _check_equivalence that follow the power loop rules
LaterRules(e1, e2) ==
    \/ check_closure_decomposition_rule(e1, e2)
    \/ check_closure_composition_rule(e1, e2)
    \/ check_mtc_closure_expansion(e1, e2)
    \/ check_nested_closure_rule(e1, e2)
    \/ check_meta_self_closure(e1, e2)
    \/ check_extended_self_closure(e1, e2)
    \/ check_basic_axioms(e1, e2)

RECURSIVE equivalent(_, _, _), check_equivalence(_, _, _),
          check_power_loop_rules(_, _, _), ExpandAndCompare(_, _, _)

\* equivalent with its first two tests exchanged: the cache is asked before
\* the terms are compared
equivalent_cache_first(e1, e2, cache) ==
    IF CacheKey(e1, e2) \in DOMAIN cache
    THEN Returned(cache[CacheKey(e1, e2)], cache)
    ELSE IF e1 = e2 THEN Returned(TRUE, cache)
         ELSE LET r == check_equivalence(e1, e2, cache) IN
              IF r.raised THEN r
              ELSE Returned(r.val, (CacheKey(e1, e2) :> r.val) @@ r.cache)

\* MtcProver.equivalent: the answer and the cache it leaves
equivalent(e1, e2, cache) ==
    IF e1 = e2 THEN Returned(TRUE, cache)
    ELSE IF CacheKey(e1, e2) \in DOMAIN cache
         THEN Returned(cache[CacheKey(e1, e2)], cache)
         ELSE LET r == check_equivalence(e1, e2, cache) IN
              IF r.raised THEN r
              ELSE Returned(r.val, (CacheKey(e1, e2) :> r.val) @@ r.cache)

\* "if power is a^n: expand it and ask equivalent(expanded, other)"
ExpandAndCompare(power, other, cache) ==
    IF ~isinstance(power, "PowerLoopExpression") THEN Returned(FALSE, cache)
    ELSE IF ExpandRaises(power) THEN RaisedError(cache)
    ELSE equivalent(expand_power_loop(power), other, cache)

check_power_loop_rules(e1, e2, cache) ==
    LET first == ExpandAndCompare(e1, e2, cache) IN
    IF first.raised \/ first.val THEN first
    ELSE LET second == ExpandAndCompare(e2, e1, first.cache) IN
         IF second.raised \/ second.val THEN second
         ELSE Returned(PowerLoopSpecialCase(e1, e2) \/ PowerLoopSpecialCase(e2, e1),
                       second.cache)

check_equivalence(e1, e2, cache) ==
    IF check_merger_of_recursions(e1, e2) THEN Returned(TRUE, cache)
    ELSE IF check_negation_rules(e1, e2) THEN Returned(TRUE, cache)
    ELSE LET power == check_power_loop_rules(e1, e2, cache) IN
         IF power.raised \/ power.val THEN power
         ELSE Returned(LaterRules(e1, e2), power.cache)

\* what a prover with an empty cache answers: "True", "False" or "Raise"
Outcome(r) == IF r.raised THEN "Raise" ELSE IF r.val THEN "True" ELSE "False"

\* what parse_and_prove returns once equivalent has answered r
Verdict(kind, r) ==
    IF r.raised THEN Returned(FALSE, r.cache)
    ELSE IF kind = "EQUATION" THEN r
    ELSE Returned(~r.val, r.cache)

\* parse_and_prove after the text is parsed
ProveParsed(parsed_result, cache) ==
    IF parsed_result = ValueError THEN Returned(FALSE, cache)
    ELSE IF parsed_result.kind = "EXPRESSION" THEN Returned(TRUE, cache)
    ELSE Verdict(parsed_result.kind,
                 equivalent(parsed_result.left, parsed_result.right, cache))

\* MtcProver.parse_and_prove: every exception is caught and answered False
parse_and_prove(txt, cache) == ProveParsed(parse(txt), cache)

(***************************************************************************)
(* anum_prover.py: EnhancedAnumLexer, EnhancedAnumParser and               *)
(* EnhancedAnumProver.  Its term classes are those of MtcProver without    *)
(* the negation and the power loop, and where a method has the text of     *)
(* the MtcProver method of the same name the operator above is used.       *)
(***************************************************************************)
RECURSIVE EnhancedSymbolEnd(_, _)
EnhancedSymbolEnd(txt, pos) ==
    IF pos <= Len(txt) /\ (isalpha(txt[pos]) \/ txt[pos] = "_")
    THEN EnhancedSymbolEnd(txt, pos + 1)
    ELSE pos

\* the branch for a run of form characters
EnhancedFormToken(closure, pos) ==
    IF Len(closure) > 1 THEN Token("COMPLEX_CLOSURE", closure, pos)
    ELSE IF closure = <<INF>> THEN Token("ASSOCIATIVE_ROOT", closure, pos)
    ELSE IF closure = <<MALE>> THEN Token("FORM_REF", closure, pos)
    ELSE Token("FORM_VAL", closure, pos)

\* EnhancedAnumLexer.get_next_token: '-' is always the abit
Enhanced_get_next_token(txt, pos) ==
    LET p == skip_whitespace(txt, pos) IN
    IF p > Len(txt) THEN Token("EOF", << >>, p)
    ELSE LET c == txt[p] IN
         CASE c = "(" -> Token("ABIT_START", <<"(">>, p + 1)
           [] c = ")" -> Token("ABIT_END", <<")">>, p + 1)
           [] c = "+" -> Token("ABIT_CONNECT", <<"+">>, p + 1)
           [] c = "-" -> Token("ABIT_DISCONNECT", <<"-">>, p + 1)
           [] c = "=" -> IF peek_ahead(txt, p) = "="
                         THEN Token("EQUALS", <<"=", "=">>, p + 2)
                         ELSE Token("EQUALS", <<"=">>, p + 1)
           [] c = "!" /\ peek_ahead(txt, p) = "=" ->
                         Token("NOT_EQUALS", <<"!", "=">>, p + 2)
           [] c = EQUIV -> Token("EQUALS", <<"=", "=">>, p + 1)
           [] c = NEQUIV -> Token("NOT_EQUALS", <<"!", "=">>, p + 1)
           [] c = ARROW -> Token("ARROW_UNICODE", <<ARROW>>, p + 1)
           [] c = NOARROW -> Token("ARROW_DISCONNECT", <<",">>, p + 1)
           [] c \in FormChars ->
                 EnhancedFormToken(SubSeq(txt, p, FormEnd(txt, p) - 1),
                                   FormEnd(txt, p))
           [] isalpha(c) \/ c = "_" ->
                 Token("SYMBOL", SubSeq(txt, p, EnhancedSymbolEnd(txt, p) - 1),
                       EnhancedSymbolEnd(txt, p))
           [] OTHER -> Token("ERROR", <<c>>, p)

RECURSIVE EnhancedTokenize(_, _)
EnhancedTokenize(txt, pos) ==
    LET t == Enhanced_get_next_token(txt, pos) IN
    IF t.type \in {"EOF", "ERROR"} THEN <<t>>
    ELSE <<t>> \o EnhancedTokenize(txt, t.pos)

Enhanced_parse_complex_closure(closure_text) ==
    ComplexClosure([k \in 1..Len(closure_text) |-> FormPart(closure_text[k])])

\* EnhancedAnumParser.parse_primary: "(" is the term AbitStart
Enhanced_parse_primary(toks, i) ==
    LET t == toks[i].type IN
    CASE t = "SYMBOL" -> Parsed(Symbol(toks[i].value), i + 1)
      [] t = "ASSOCIATIVE_ROOT" -> Parsed(AssociativeRoot, i + 1)
      [] t = "ABIT_START" -> Parsed(AbitStart, i + 1)
      [] t = "ABIT_END" -> Parsed(AbitEnd, i + 1)
      [] t = "ABIT_CONNECT" -> Parsed(AbitConnect, i + 1)
      [] t = "ABIT_DISCONNECT" -> Parsed(AbitDisconnect, i + 1)
      [] t = "FORM_REF" -> Parsed(REF, i + 1)
      [] t = "FORM_VAL" -> Parsed(VAL, i + 1)
      [] t = "ARROW_UNICODE" -> Parsed(ConnectionForm("ARROW"), i + 1)
      [] t = "COMPLEX_CLOSURE" ->
            Parsed(Enhanced_parse_complex_closure(toks[i].value), i + 1)
      [] OTHER -> Raised(i)

EnhancedSequenceStart ==
    {"SYMBOL", "ASSOCIATIVE_ROOT", "ABIT_START", "ABIT_END", "ABIT_CONNECT",
     "ABIT_DISCONNECT", "FORM_REF", "FORM_VAL", "COMPLEX_CLOSURE"}

\* the while loop of parse_sequence, entered with the first operand r
RECURSIVE EnhancedSequenceTail(_, _)
EnhancedSequenceTail(toks, r) ==
    IF ~r.ok \/ toks[r.i].type \notin EnhancedSequenceStart THEN r
    ELSE EnhancedSequenceTail(toks,
             Connect(r, FoldAbitPair(toks, Enhanced_parse_primary(toks, r.i))))

Enhanced_parse_sequence(toks, i) ==
    EnhancedSequenceTail(toks, FoldAbitPair(toks, Enhanced_parse_primary(toks, i)))

RECURSIVE EnhancedConnectionTail(_, _)
EnhancedConnectionTail(toks, left) ==
    IF ~left.ok \/ toks[left.i].type # "ARROW_UNICODE" THEN left
    ELSE EnhancedConnectionTail(toks,
             Connect(left, Enhanced_parse_sequence(toks, left.i + 1)))

Enhanced_parse_connection(toks, i) ==
    EnhancedConnectionTail(toks, Enhanced_parse_sequence(toks, i))

\* parse_equation after its left side is parsed
EnhancedEquationTail(toks, left) ==
    IF ~left.ok THEN [ok |-> FALSE, res |-> ValueError, i |-> left.i]
    ELSE IF toks[left.i].type \in {"EQUALS", "NOT_EQUALS"}
         THEN EquationOf(toks[left.i].type, left,
                         Enhanced_parse_connection(toks, left.i + 1))
         ELSE [ok |-> TRUE,
               res |-> [kind |-> "EXPRESSION", left |-> left.expr],
               i |-> left.i]

EnhancedParseTokens(toks) ==
    EndOfInput(toks, EnhancedEquationTail(toks, Enhanced_parse_connection(toks, 1)))

\* EnhancedAnumParser(EnhancedAnumLexer(text)).parse()
Enhanced_parse(txt) == EnhancedParseTokens(EnhancedTokenize(txt, LexerInit))

GroupedMaleInfFemale == <<"(", MALE, INF, ")", FEMALE>>

\* one direction of _check_closure_decomposition_rule
EnhancedClosureDecomposition(three, other) ==
    /\ isinstance(three, "ComplexClosure")
    /\ Len(three.parts) = 3
    /\ Str(three) = MaleInfFemale
    /\ \/ /\ isinstance(other, "ComplexClosure")
          /\ Len(other.parts) = 2
          /\ Str(other) = GroupedMaleInfFemale
       \/ isinstance(other, "Connection")

\* one direction of _check_closure_composition_rule
EnhancedClosureComposition(closure, conn) ==
    /\ isinstance(closure, "ComplexClosure")
    /\ isinstance(conn, "Connection")
    /\ Len(closure.parts) = 2
    /\ IsForm(closure.parts[2], "VAL")
    /\ conn.reference.tag = closure.parts[1].tag
    /\ isinstance(conn.value, "ComplexClosure")

\* the abit identity answering True for every two abits
abits_all_alike(e1, e2) ==
    \/ AbitPairAxiom(e1, e2) \/ AbitPairAxiom(e2, e1)
    \/ BasicSelfClosure(e1, e2) \/ BasicSelfClosure(e2, e1)
    \/ check_extended_self_closure(e1, e2)
    \/ (e1.tag \in Abits /\ e2.tag \in Abits)

Enhanced_check_basic_axioms(e1, e2) ==
    \/ AbitPairAxiom(e1, e2) \/ AbitPairAxiom(e2, e1)
    \/ BasicSelfClosure(e1, e2) \/ BasicSelfClosure(e2, e1)
    \/ check_extended_self_closure(e1, e2)
    \/ (e1.tag \in Abits /\ e2.tag \in Abits /\ e1.tag = e2.tag)

\* EnhancedAnumProver._check_equivalence; _check_implication_chains
\* returns False on every path
Enhanced_check_equivalence(e1, e2) ==
    \/ check_merger_of_recursions(e1, e2)
    \/ EnhancedClosureDecomposition(e1, e2)
    \/ EnhancedClosureDecomposition(e2, e1)
    \/ EnhancedClosureComposition(e1, e2)
    \/ EnhancedClosureComposition(e2, e1)
    \/ check_mtc_closure_expansion(e1, e2)
    \/ check_nested_closure_rule(e1, e2)
    \/ check_meta_self_closure(e1, e2)
    \/ Enhanced_check_basic_axioms(e1, e2)

\* EnhancedAnumProver.equivalent: the answer and the cache it leaves
Enhanced_equivalent(e1, e2, cache) ==
    IF e1 = e2 THEN Returned(TRUE, cache)
    ELSE IF CacheKey(e1, e2) \in DOMAIN cache
         THEN Returned(cache[CacheKey(e1, e2)], cache)
         ELSE Returned(Enhanced_check_equivalence(e1, e2),
                       (CacheKey(e1, e2) :> Enhanced_check_equivalence(e1, e2))
                           @@ cache)

EnhancedProveParsed(parsed_result, cache) ==
    IF parsed_result = ValueError THEN Returned(FALSE, cache)
    ELSE IF parsed_result.kind = "EXPRESSION" THEN Returned(TRUE, cache)
    ELSE Verdict(parsed_result.kind,
                 Enhanced_equivalent(parsed_result.left, parsed_result.right,
                                     cache))

\* EnhancedAnumProver.parse_and_prove
Enhanced_parse_and_prove(txt, cache) ==
    EnhancedProveParsed(Enhanced_parse(txt), cache)

(***************************************************************************)
(* process_file: the lines of a formula file are proved one after the     *)
(* other on one MtcProver and the passes and failures are counted.         *)
(***************************************************************************)
\* unicode.strip(): s without its leading and trailing whitespace
strip(s) ==
    LET inked == {k \in 1..Len(s) : ~isspace(s[k])} IN
    IF inked = {} THEN << >>
    ELSE SubSeq(s, CHOOSE k \in inked : \A j \in inked : k <= j,
                   CHOOSE k \in inked : \A j \in inked : j <= k)

\* s.split(sep) for a one-character separator
RECURSIVE split(_, _)
split(s, sep) ==
    IF \A k \in 1..Len(s) : s[k] # sep THEN <<s>>
    ELSE <<SubSeq(s, 1, (CHOOSE k \in 1..Len(s) :
                            s[k] = sep /\ \A j \in 1..(k - 1) : s[j] # sep) - 1)>>
         \o split(SubSeq(s, (CHOOSE k \in 1..Len(s) :
                                s[k] = sep /\ \A j \in 1..(k - 1) : s[j] # sep) + 1,
                         Len(s)), sep)

\* lines = file_content.strip().split('\n')
FileLines(content) == split(strip(content), NEWLINE)

\* "if not line or line.startswith('#'): continue", line already stripped
IsSkipped(line) == line = << >> \/ line[1] = "#"

\* what process_file counts: total, passed, failed_lines, and the prover
Counters(n, p, failed, cache) ==
    [total |-> n, passed |-> p, failed_lines |-> failed, cache |-> cache]

\* the rest of the loop body once parse_and_prove has answered r
Counted(r, n, c) ==
    Counters(c.total + 1,
             IF r.val THEN c.passed + 1 ELSE c.passed,
             IF r.val THEN c.failed_lines ELSE Append(c.failed_lines, n),
             r.cache)

\* a loop body that drops the lines that fail
LoopBodyDropsFailures(line, n, c) ==
    IF IsSkipped(strip(line)) THEN c
    ELSE IF parse_and_prove(strip(line), c.cache).val
         THEN Counted(parse_and_prove(strip(line), c.cache), n, c)
         ELSE c

\* one iteration of "for line_num, line in enumerate(lines, 1)"
LoopBody(line, n, c) ==
    IF IsSkipped(strip(line)) THEN c
    ELSE Counted(parse_and_prove(strip(line), c.cache), n, c)

\* "{:.1f}" of 100.0*passed/total, in tenths of a percent; no total below
\* 16 has a quotient half-way between two tenths
Percentage(p, n) ==
    IF n > 0 THEN (2000 * p + n) \div (2 * n) ELSE 0

\* the results line and the value process_file returns
Report(p, n, failed) ==
    [returned |-> failed = << >>, passed |-> p, total |-> n,
     percentage |-> Percentage(p, n), failed_lines |-> failed]

(***************************************************************************)
(* The original abit notation (src/parsers/mtc_original_abit_parser.py):   *)
(* MTCAbitNotation and the ContextualCommaResolver that MTCOriginalLexer   *)
(* runs over its text when it is constructed.  The notation's other        *)
(* non-ASCII characters are written by name too: "group_start" (U+27E8),   *)
(* "group_end" (U+27E9), "sequence_sep" (U+00B7), "escape_start" (U+2983)  *)
(* and "escape_end" (U+2984).  Positions in a text are counted from 0, as  *)
(* the code counts them.                                                   *)
(***************************************************************************)
ABITS ==
    [reference_start |-> MALE, value_end |-> FEMALE, connection |-> ARROW,
     no_connection |-> ",", infinity |-> INF]

CONTEXT_SEPARATORS ==
    [group_start |-> "group_start", group_end |-> "group_end",
     sequence_sep |-> "sequence_sep", list_sep |-> ";",
     escape_start |-> "escape_start", escape_end |-> "escape_end"]

is_abit(symbol) == \E k \in DOMAIN ABITS : ABITS[k] = symbol

is_context_separator(symbol) ==
    \E k \in DOMAIN CONTEXT_SEPARATORS : CONTEXT_SEPARATORS[k] = symbol

get_abit_type(symbol) ==
    IF is_abit(symbol) THEN CHOOSE k \in DOMAIN ABITS : ABITS[k] = symbol
    ELSE "None"

get_separator_type(symbol) ==
    IF is_context_separator(symbol)
    THEN CHOOSE k \in DOMAIN CONTEXT_SEPARATORS : CONTEXT_SEPARATORS[k] = symbol
    ELSE "None"

\* text[pos]
CharAt(txt, pos) == txt[pos + 1]

\* text.find(c, start): the first position of c at or after start, or -1
find(txt, c, start) ==
    LET found == {p \in start..(Len(txt) - 1) : CharAt(txt, p) = c} IN
    IF found = {} THEN -1
    ELSE CHOOSE p \in found : \A q \in found : p <= q

\* the nearest character before pos that is not a space, "None" without one
find_nearest_non_space_before(txt, pos) ==
    LET found == {p \in 0..(pos - 1) : ~isspace(CharAt(txt, p))} IN
    IF found = {} THEN "None"
    ELSE CharAt(txt, CHOOSE p \in found : \A q \in found : q <= p)

\* the nearest character after pos that is not a space, "None" without one
find_nearest_non_space_after(txt, pos) ==
    LET found == {p \in (pos + 1)..(Len(txt) - 1) : ~isspace(CharAt(txt, p))} IN
    IF found = {} THEN "None"
    ELSE CharAt(txt, CHOOSE p \in found : \A q \in found : p <= q)

\* more groups are opened than closed before pos
is_inside_group(txt, pos) ==
    Cardinality({p \in 0..(pos - 1) :
                    CharAt(txt, p) = CONTEXT_SEPARATORS.group_start})
        > Cardinality({p \in 0..(pos - 1) :
                          CharAt(txt, p) = CONTEXT_SEPARATORS.group_end})

\* an abit other than the comma
IsOtherAbit(c) == c # "None" /\ is_abit(c) /\ c # ","

\* ContextualCommaResolver._is_abit_comma_context
is_abit_comma_context(txt, comma_pos) ==
    LET before_abit == find_nearest_non_space_before(txt, comma_pos)
        after_abit == find_nearest_non_space_after(txt, comma_pos) IN
    IF IsOtherAbit(before_abit) /\ IsOtherAbit(after_abit) THEN TRUE
    ELSE IF (IsOtherAbit(before_abit) \/ IsOtherAbit(after_abit))
            /\ ~is_inside_group(txt, comma_pos) THEN TRUE
    ELSE FALSE

\* the index and the list after an iteration of the scanning loop
Scanned(i, res) == [i |-> i, result |-> res]

\* one iteration of the loop of resolve_comma_context, at position i of the
\* text with the list res built so far.  A token's value is a text.
ScanIteration(txt, i, res) ==
    LET char == CharAt(txt, i) IN
    IF char = CONTEXT_SEPARATORS.escape_start THEN
        LET end_pos == find(txt, CONTEXT_SEPARATORS.escape_end, i + 1) IN
        IF end_pos # -1 THEN
            LET escaped_content == SubSeq(txt, i + 2, end_pos) IN
            IF escaped_content = <<",">>
            THEN Scanned(end_pos + 1,
                         Append(res, <<"ABIT", <<",">>, "no_connection">>))
            ELSE Scanned(end_pos + 1,
                         Append(res, <<"ESCAPED", escaped_content>>))
        ELSE Scanned(i, res)
    ELSE IF is_abit(char) THEN
        IF char = "," THEN
            IF is_abit_comma_context(txt, i)
            THEN Scanned(i + 1,
                         Append(res, <<"ABIT", <<char>>, get_abit_type(char)>>))
            ELSE Scanned(i + 1,
                         Append(res, <<"SEPARATOR", <<char>>, "list_separator">>))
        ELSE Scanned(i + 1,
                     Append(res, <<"ABIT", <<char>>, get_abit_type(char)>>))
    ELSE IF is_context_separator(char) THEN
        Scanned(i + 1,
                Append(res, <<"CONTEXT_SEP", <<char>>, get_separator_type(char)>>))
    ELSE Scanned(i + 1, Append(res, <<"CHAR", <<char>>>>))

(***************************************************************************)
(* Bounds and the inputs drawn from them.  Every term below is one the     *)
(* parser produces from some text.                                         *)
(***************************************************************************)
MaxCalls == 2
MaxExp == 4
MaxChain == 5
MaxDepth == 3
MaxTextLen == 5
MaxOpLen == 4
MaxLines == 3
MaxUnfold == 4
MaxNameLen == 5
MaxIterations == 6

\* base -> base -> ... -> base, n times, left-associative
RECURSIVE SelfChain(_, _)
SelfChain(base, n) ==
    IF n <= 1 THEN base ELSE Connection(SelfChain(base, n - 1), base)

RECURSIVE Repeat(_, _)
Repeat(part, n) == IF n = 0 THEN << >> ELSE <<part>> \o Repeat(part, n - 1)

\* k REF forms before v, and r before k VAL forms
ReferenceClosure(k, v) == ComplexClosure(Repeat(REF, k) \o <<v>>)
ValueClosure(r, k) == ComplexClosure(<<r>> \o Repeat(VAL, k))

SymA == Symbol(<<"a">>)
SymB == Symbol(<<"b">>)
RefVal == ComplexClosure(<<REF, VAL>>)
RefRootVal == ComplexClosure(<<REF, AssociativeRoot, VAL>>)

SymX == Symbol(<<"x">>)
SymP == Symbol(<<"p">>)
SymQ == Symbol(<<"q">>)

Symbols == {SymA, SymB, SymX, SymP, SymQ, Symbol(<<"a", "a">>),
            Symbol(<<"a", "b">>), Symbol(<<"a", "a", "a">>)}

Leaves == {AssociativeRoot, AbitEnd, AbitConnect, AbitDisconnect,
           REF, VAL, ConnectionForm("ARROW")}

Closures ==
    {RefVal, RefRootVal,
     ComplexClosure(<<REF, AssociativeRoot>>),
     ComplexClosure(<<AssociativeRoot, AssociativeRoot>>),
     ComplexClosure(<<VAL, REF>>),
     ComplexClosure(<<REF, SymA, VAL>>),
     ComplexClosure(<<REF, REF, VAL>>),
     ComplexClosure(<<REF, VAL, VAL>>)}
    \cup {ReferenceClosure(k, v) : k \in 1..MaxDepth, v \in {SymA, SymX}}
    \cup {ValueClosure(r, k) : r \in {SymA, SymX, AssociativeRoot}, k \in 1..MaxDepth}

\* a^0, which the parser accepts and _expand_power_loop cannot expand
ZeroPower == PowerLoopExpression(SymA, 0)

Bases == {SymA, Symbol(<<"a", "a">>), AssociativeRoot, RefVal, RefRootVal,
          NegationExpression(SymA), ZeroPower}

Powers ==
    {PowerLoopExpression(b, n) : b \in Bases, n \in 0..MaxExp}
    \cup {PowerLoopExpression(PowerLoopExpression(SymA, 0), 1),
          PowerLoopExpression(PowerLoopExpression(SymA, 1), 2)}

SelfChains == {SelfChain(b, n) : b \in Bases, n \in 2..(MaxExp + 1)}

RootChains == {SelfChain(AssociativeRoot, n) : n \in 2..MaxChain}

\* connections that miss being a chain of roots in one place
NearChains ==
    {Connection(Connection(SymA, AssociativeRoot), AssociativeRoot),
     Connection(Connection(AssociativeRoot, SymA), AssociativeRoot),
     Connection(Connection(AssociativeRoot, AssociativeRoot), SymA),
     Connection(AssociativeRoot, Connection(AssociativeRoot, AssociativeRoot)),
     Connection(AssociativeRoot, SymA),
     Connection(SymA, AssociativeRoot),
     Connection(RefVal, AssociativeRoot),
     Connection(SymA, SymB),
     Connection(SymA, Connection(SymA, SymA))}

Negations ==
    {NegationExpression(e) : e \in Symbols \cup Closures \cup {AssociativeRoot}}
    \cup {NegationExpression(PowerLoopExpression(SymA, 2))}

Terms == Symbols \cup Leaves \cup Closures \cup Powers \cup SelfChains
             \cup RootChains \cup NearChains \cup Negations

\* the terms one proving session is asked about: two that print alike,
\* -(a^2) and (-a)^2, and the terms they are compared with
NegOfPower == NegationExpression(PowerLoopExpression(SymA, 2))
PowerOfNeg == PowerLoopExpression(NegationExpression(SymA), 2)
NegPair == Connection(NegationExpression(SymA), NegationExpression(SymA))

SessionTerms == {NegOfPower, PowerOfNeg, NegPair, SymA, SymB, RefVal, AssociativeRoot}

\* the four abits, and the terms a session about them asks of: the abits
\* and two symbols that print like an abit
AbitTerms == {AbitStart, AbitEnd, AbitConnect, AbitDisconnect}

AbitSessionTerms == AbitTerms \cup {Symbol(<<"(">>), Symbol(<<")">>)}

\* each abit character written alone on both sides of an equation
AbitSelfTexts == {<<c, " ", EQUIV, " ", c>> : c \in {"(", ")", "+", "-"}}

AbitTexts ==
    AbitSelfTexts
    \cup {<<"(", " ", EQUIV, " ", ")">>,
          <<"-", " ", NEQUIV, " ", "+">>,
          <<"(", ")", " ", EQUIV, " ", INF>>}

\* the formulas one proving session is given as text
NegationLawTexts ==
    {<<"-", "a", "b", " ", EQUIV, " ", "b", "a">>,
     <<"-", "a", "a", " ", EQUIV, " ", "a", "a">>,
     <<"-", INF, " ", EQUIV, " ", INF>>}

\* formulas whose power loop has the exponent 0 or a negative exponent
InvalidExponentTexts ==
    {<<"a", "^", "0", EQUIV, "a">>,
     <<"a", "^", "0">>,
     <<"a", "^", "0", EQUIV, "a", "^", "0">>,
     <<"a", "^", "-", "1">>,
     <<"a", "^", "-", "1", EQUIV, "a">>}

SessionTexts ==
    NegationLawTexts
    \cup InvalidExponentTexts
    \cup {<<"-", "a", "^", "2", EQUIV, "-", "a", " ", "-", "a">>,
          <<"-", "(", "a", "^", "2", ")", EQUIV, "-", "a", " ", "-", "a">>,
          <<"a", "^", "0", EQUIV, "a">>,
          <<"a", NEQUIV, "b">>,
          <<"a", " ", "b">>,
          <<"a", "?">>}

\* every text of at most n characters of the alphabet
RECURSIVE TextsOver(_, _)
TextsOver(alphabet, n) ==
    IF n = 0 THEN {<< >>}
    ELSE LET shorter == TextsOver(alphabet, n - 1) IN
         shorter \cup {Append(t, c) : t \in {s \in shorter : Len(s) = n - 1},
                                      c \in alphabet}

\* texts of symbols, parentheses and arrows
GroupTexts == TextsOver({"a", "(", ")", ARROW, " "}, MaxOpLen)

\* texts of symbols, blanks and arrows
ArrowTexts == TextsOver({"a", ARROW, " "}, MaxTextLen)

\* texts of symbols, exponents and the operators
OperatorTexts ==
    TextsOver({"a", "^", "2", EQUIV, ARROW}, MaxOpLen)
        \cup TextsOver({"a", NEQUIV}, MaxOpLen)

\* texts with '-' and the characters that decide what it is
MinusTexts == TextsOver({"a", "-", ">", "=", " "}, MaxOpLen)

\* texts of symbols and form characters
FormTexts == TextsOver({"a", MALE, FEMALE, INF, " "}, MaxOpLen)

Texts ==
    TextsOver({"a", "b", "c", " "}, MaxTextLen) \cup SessionTexts
        \cup GroupTexts \cup ArrowTexts \cup OperatorTexts \cup MinusTexts
        \cup FormTexts

\* r followed by k VAL forms, and k REF forms followed by v; the symbol
\* itself for k = 0
ValueOf(r, k) == IF k = 0 THEN r ELSE ValueClosure(r, k)
ReferenceOf(k, v) == IF k = 0 THEN v ELSE ReferenceClosure(k, v)

\* a closure of depth k and its one-step unfolding
ValueUnfolding(r, k) ==
    <<ValueClosure(r, k), Connection(ValueOf(r, k - 1), ValueClosure(r, k))>>
ReferenceUnfolding(k, v) ==
    <<ReferenceClosure(k, v),
      Connection(ReferenceClosure(k, v), ReferenceOf(k - 1, v))>>

UnfoldedSymbols == {SymA, SymX, Symbol(<<"a", "b">>)}

ValueUnfoldings ==
    {ValueUnfolding(r, k) : r \in UnfoldedSymbols, k \in 1..MaxUnfold}
ReferenceUnfoldings ==
    {ReferenceUnfolding(k, v) : v \in UnfoldedSymbols, k \in 1..MaxUnfold}

\* both ways round
Swapped(pairs) == {<<pr[2], pr[1]>> : pr \in pairs}

UnfoldingPairs ==
    ValueUnfoldings \cup ReferenceUnfoldings
        \cup Swapped(ValueUnfoldings \cup ReferenceUnfoldings)

\* closures of two and three parts, and connections that do and do not
\* unfold them
RefRoot == ComplexClosure(<<REF, AssociativeRoot>>)

SoundnessClosures ==
    {RefRootVal, RefVal, RefRoot, ReferenceClosure(1, SymA),
     ValueClosure(SymA, 1), ComplexClosure(<<REF, SymA, VAL>>)}

SoundnessConnections ==
    {Connection(SymA, SymB),
     Connection(SymX, AssociativeRoot),
     Connection(AssociativeRoot, AssociativeRoot),
     Connection(RefRoot, RefRootVal),
     Connection(SymB, RefRootVal),
     Connection(Connection(RefRoot, AssociativeRoot), RefRootVal),
     Connection(Connection(SymA, AssociativeRoot), RefRootVal),
     Connection(RefRoot, AssociativeRoot),
     Connection(RefRoot, VAL),
     Connection(SymA, ValueClosure(SymA, 1)),
     Connection(ReferenceClosure(1, SymA), SymA)}

SoundnessPairs ==
    {<<c, k>> : c \in SoundnessClosures, k \in SoundnessConnections}
        \cup {<<k, c>> : c \in SoundnessClosures, k \in SoundnessConnections}

\* operands the engine holds equivalent: a^2 and a -> a, REF VAL and the
\* root, the root and root -> root, and a symbol and itself
OperandPairs ==
    {<<PowerLoopExpression(SymA, 2), Connection(SymA, SymA)>>,
     <<RefVal, AssociativeRoot>>,
     <<AssociativeRoot, Connection(AssociativeRoot, AssociativeRoot)>>}
        \cup Swapped({<<PowerLoopExpression(SymA, 2), Connection(SymA, SymA)>>,
                      <<RefVal, AssociativeRoot>>,
                      <<AssociativeRoot,
                        Connection(AssociativeRoot, AssociativeRoot)>>})
        \cup {<<SymA, SymA>>, <<SymB, SymB>>}

\* connections of such operands, place by place
CongruencePairs ==
    {<<Connection(p[1], q[1]), Connection(p[2], q[2])>> :
        p \in OperandPairs, q \in OperandPairs}

\* the chain of the one-character symbols of a name, nested to the left and
\* nested to the right
RECURSIVE LeftChainOf(_)
LeftChainOf(name) ==
    IF Len(name) = 1 THEN Symbol(name)
    ELSE Connection(LeftChainOf(Front(name)), Symbol(<<Last(name)>>))

RECURSIVE RightChainOf(_)
RightChainOf(name) ==
    IF Len(name) = 1 THEN Symbol(name)
    ELSE Connection(Symbol(<<name[1]>>), RightChainOf(Rest(name)))

\* names of two to MaxNameLen characters
SymbolNames == {n \in TextsOver({"a", "b"}, MaxNameLen) : Len(n) >= 2}

ExistencePairs ==
    {<<Symbol(n), LeftChainOf(n)>> : n \in SymbolNames}
        \cup {<<Symbol(n), RightChainOf(n)>> : n \in SymbolNames}
        \cup {<<LeftChainOf(n), Symbol(n)>> : n \in SymbolNames}
        \cup {<<RightChainOf(n), Symbol(n)>> : n \in SymbolNames}

\* the pairs of terms the laws of the engine are asked about
LawPairs ==
    UnfoldingPairs \cup SoundnessPairs \cup CongruencePairs \cup ExistencePairs

\* the lines a formula file is made of: blank lines, comments, formulas that
\* hold, formulas that do not, and lines that are no formula
LineTexts ==
    {<< >>,
     <<" ">>,
     <<"#", "a">>,
     <<" ", "#">>,
     <<"a", EQUIV, "a">>,
     <<" ", "a", " ">>,
     <<"a", EQUIV, "b">>,
     <<"a", "?">>,
     <<"a", ARROW>>,
     <<"a", "^", "0", EQUIV, "a">>}

\* '\n'.join(lines)
RECURSIVE Join(_)
Join(ls) ==
    IF ls = << >> THEN << >>
    ELSE IF Len(ls) = 1 THEN ls[1]
    ELSE ls[1] \o <<NEWLINE>> \o Join(Rest(ls))

\* the files of at most MaxLines lines
FileContents == {Join(ls) : ls \in TextsOver(LineTexts, MaxLines)}

\* texts of commas, abits, escapes and groups
CommaTexts ==
    TextsOver({"a", ",", " ", MALE, CONTEXT_SEPARATORS.escape_start,
               CONTEXT_SEPARATORS.escape_end, CONTEXT_SEPARATORS.group_start},
              MaxOpLen)

(***************************************************************************)
(* Spec: one MtcProver and the calls made on it.  call and result record   *)
(* the last call and what it returned ("Raise" when an exception left it). *)
(***************************************************************************)
NoCall == [op |-> "none"]
NoToken == Token("NONE", << >>, LexerInit)
NoResult == [kind |-> "None"]

NoReport == [returned |-> "None"]

\* no file is being processed
NoFile ==
    /\ file_content = << >> /\ line_num = 0
    /\ total = 0 /\ passed = 0 /\ failed_lines = << >>
    /\ report = NoReport

NoTokens == [resolved |-> FALSE]

\* no text is being scanned for its commas
NoScan ==
    /\ scan_i = 0 /\ scan_result = << >> /\ iterations = 0
    /\ resolved_tokens = NoTokens

Idle ==
    /\ text = << >> /\ position = LexerInit /\ token = NoToken /\ parsed = NoResult
    /\ expr1 = AbitStart /\ expr2 = AbitStart /\ answer = "None"
    /\ NoFile
    /\ NoScan

\* no call made yet on a prover of the class cls
Constructed(cls) ==
    /\ equivalence_cache = EmptyCache /\ call = NoCall /\ result = "None"
    /\ ncalls = 0
    /\ prover = cls

NoProver == Constructed("MtcProver")

\* MtcProver.__init__
Init == NoProver /\ Idle

\* prover.equivalent(e1, e2)
Equivalent(e1, e2) ==
    /\ ncalls < MaxCalls
    /\ LET r == equivalent(e1, e2, equivalence_cache) IN
       /\ equivalence_cache' = r.cache
       /\ result' = Outcome(r)
    /\ call' = [op |-> "equivalent", expr1 |-> e1, expr2 |-> e2]
    /\ ncalls' = ncalls + 1
    /\ UNCHANGED <<parseVars, equivVars, fileVars, commaVars, prover>>

\* prover.parse_and_prove(txt), as process_file calls it for each line
ParseAndProve(txt) ==
    /\ ncalls < MaxCalls
    /\ LET r == parse_and_prove(txt, equivalence_cache) IN
       /\ equivalence_cache' = r.cache
       /\ result' = Outcome(r)
    /\ call' = [op |-> "parse_and_prove", text |-> txt]
    /\ ncalls' = ncalls + 1
    /\ UNCHANGED <<parseVars, equivVars, fileVars, commaVars, prover>>

\* the prover is dropped and a new one constructed
NewProver ==
    /\ ncalls > 0
    /\ equivalence_cache' = EmptyCache
    /\ call' = NoCall
    /\ result' = "None"
    /\ ncalls' = 0
    /\ UNCHANGED <<parseVars, equivVars, fileVars, commaVars, prover>>

Next ==
    \/ \E e1 \in SessionTerms, e2 \in SessionTerms : Equivalent(e1, e2)
    \/ \E txt \in SessionTexts : ParseAndProve(txt)
    \/ NewProver

Spec == Init /\ [][Next]_vars

(***************************************************************************)
(* SpecProvers: a prover of either class, MtcProver or EnhancedAnumProver, *)
(* and the calls made on it with the abits and the formulas of abits.      *)
(***************************************************************************)
InitProvers ==
    /\ \E cls \in {"MtcProver", "EnhancedAnumProver"} : Constructed(cls)
    /\ Idle

MtcEquivalent(e1, e2) == prover = "MtcProver" /\ Equivalent(e1, e2)

\* EnhancedAnumProver.equivalent(e1, e2)
EnhancedEquivalent(e1, e2) ==
    /\ prover = "EnhancedAnumProver"
    /\ ncalls < MaxCalls
    /\ equivalence_cache' = Enhanced_equivalent(e1, e2, equivalence_cache).cache
    /\ result' = Outcome(Enhanced_equivalent(e1, e2, equivalence_cache))
    /\ call' = [op |-> "equivalent", expr1 |-> e1, expr2 |-> e2]
    /\ ncalls' = ncalls + 1
    /\ UNCHANGED <<parseVars, equivVars, fileVars, commaVars, prover>>

\* EnhancedAnumProver.parse_and_prove(txt), as main calls it
EnhancedParseAndProve(txt) ==
    /\ prover = "EnhancedAnumProver"
    /\ ncalls < MaxCalls
    /\ equivalence_cache' =
          Enhanced_parse_and_prove(txt, equivalence_cache).cache
    /\ result' = Outcome(Enhanced_parse_and_prove(txt, equivalence_cache))
    /\ call' = [op |-> "parse_and_prove", text |-> txt]
    /\ ncalls' = ncalls + 1
    /\ UNCHANGED <<parseVars, equivVars, fileVars, commaVars, prover>>

NextProvers ==
    \/ \E e1 \in AbitSessionTerms, e2 \in AbitSessionTerms :
          MtcEquivalent(e1, e2)
    \/ \E e1 \in AbitSessionTerms, e2 \in AbitSessionTerms :
          EnhancedEquivalent(e1, e2)
    \/ \E txt \in AbitTexts : EnhancedParseAndProve(txt)
    \/ NewProver

SpecProvers == InitProvers /\ [][NextProvers]_vars

(***************************************************************************)
(* SpecEquiv: equivalent(expr1, expr2) asked of a new prover, for every    *)
(* pair of terms.                                                          *)
(***************************************************************************)
InitEquiv ==
    /\ NoProver
    /\ NoFile
    /\ NoScan
    /\ text = << >> /\ position = LexerInit /\ token = NoToken /\ parsed = NoResult
    /\ expr1 \in Terms
    /\ expr2 \in Terms
    /\ answer = "None"

Decide ==
    /\ answer = "None"
    /\ answer' = Outcome(equivalent(expr1, expr2, EmptyCache))
    /\ UNCHANGED <<proverVars, parseVars, fileVars, commaVars, expr1, expr2>>

NextEquiv == Decide

SpecEquiv == InitEquiv /\ [][NextEquiv]_vars

(***************************************************************************)
(* SpecLaws: equivalent(expr1, expr2) asked of a new prover, for the pairs *)
(* of terms the laws of the engine speak of.                               *)
(***************************************************************************)
InitLaws ==
    /\ NoProver
    /\ NoFile
    /\ NoScan
    /\ text = << >> /\ position = LexerInit /\ token = NoToken /\ parsed = NoResult
    /\ \E pr \in LawPairs : expr1 = pr[1] /\ expr2 = pr[2]
    /\ answer = "None"

SpecLaws == InitLaws /\ [][NextEquiv]_vars

(***************************************************************************)
(* SpecParse: a lexer stepped over a text token by token, and the parse    *)
(* of the same text by MtcParser on a lexer of its own.                    *)
(***************************************************************************)
InitParse ==
    /\ NoProver
    /\ NoFile
    /\ NoScan
    /\ expr1 = AbitStart /\ expr2 = AbitStart /\ answer = "None"
    /\ text \in Texts
    /\ position = LexerInit
    /\ token = NoToken
    /\ parsed = NoResult

\* lexer.get_next_token()
GetNextToken ==
    /\ token.type # "ERROR"
    /\ token' = get_next_token(text, position)
    /\ position' = token'.pos
    /\ UNCHANGED <<proverVars, equivVars, fileVars, commaVars, text, parsed>>

\* MtcParser(MtcLexer(text)).parse()
Parse ==
    /\ parsed = NoResult
    /\ parsed' = parse(text)
    /\ UNCHANGED <<proverVars, equivVars, fileVars, commaVars,
                   text, position, token>>

NextParse == GetNextToken \/ Parse

SpecParse == InitParse /\ [][NextParse]_vars

(***************************************************************************)
(* SpecFile: process_file on a file, one loop iteration at a time, and    *)
(* the report after the last line.                                         *)
(***************************************************************************)
InitFile ==
    /\ NoProver
    /\ NoScan
    /\ text = << >> /\ position = LexerInit /\ token = NoToken /\ parsed = NoResult
    /\ expr1 = AbitStart /\ expr2 = AbitStart /\ answer = "None"
    /\ file_content \in FileContents
    /\ line_num = 0
    /\ total = 0 /\ passed = 0 /\ failed_lines = << >>
    /\ report = NoReport

\* the loop body for the next line
ProcessLine ==
    /\ report = NoReport
    /\ line_num < Len(FileLines(file_content))
    /\ line_num' = line_num + 1
    /\ LET c == LoopBody(FileLines(file_content)[line_num + 1], line_num + 1,
                         Counters(total, passed, failed_lines,
                                  equivalence_cache)) IN
       /\ total' = c.total
       /\ passed' = c.passed
       /\ failed_lines' = c.failed_lines
       /\ equivalence_cache' = c.cache
    /\ UNCHANGED <<call, result, ncalls, prover, parseVars, equivVars,
                   commaVars, file_content, report>>

\* the lines are exhausted: print the results and return
PrintResults ==
    /\ report = NoReport
    /\ line_num = Len(FileLines(file_content))
    /\ report' = Report(passed, total, failed_lines)
    /\ UNCHANGED <<proverVars, parseVars, equivVars, commaVars,
                   file_content, line_num, total, passed, failed_lines>>

NextFile == ProcessLine \/ PrintResults

SpecFile == InitFile /\ [][NextFile]_vars

(***************************************************************************)
(* SpecComma: MTCOriginalLexer(text), whose constructor runs               *)
(* resolve_comma_context over the text: the scanning loop one iteration at *)
(* a time, then the return of the list.  iterations counts the iterations  *)
(* made, up to MaxIterations.                                              *)
(***************************************************************************)
InitComma ==
    /\ NoProver
    /\ NoFile
    /\ expr1 = AbitStart /\ expr2 = AbitStart /\ answer = "None"
    /\ text \in CommaTexts
    /\ position = LexerInit /\ token = NoToken /\ parsed = NoResult
    /\ scan_i = 0 /\ scan_result = << >> /\ iterations = 0
    /\ resolved_tokens = NoTokens

\* the body of "while i < len(text)"
ScanChar ==
    /\ resolved_tokens = NoTokens
    /\ scan_i < Len(text)
    /\ iterations < MaxIterations
    /\ LET s == ScanIteration(text, scan_i, scan_result) IN
       /\ scan_i' = s.i
       /\ scan_result' = s.result
    /\ iterations' = iterations + 1
    /\ UNCHANGED <<proverVars, parseVars, equivVars, fileVars,
                   resolved_tokens>>

\* the loop's condition fails: return result, kept as self.resolved_tokens
ReturnTokens ==
    /\ resolved_tokens = NoTokens
    /\ scan_i >= Len(text)
    /\ resolved_tokens' = [resolved |-> TRUE, tokens |-> scan_result]
    /\ UNCHANGED <<proverVars, parseVars, equivVars, fileVars,
                   scan_i, scan_result, iterations>>

NextComma == ScanChar \/ ReturnTokens

SpecComma == InitComma /\ [][NextComma]_vars

(***************************************************************************)
(* Properties of one proving session (Spec)                                *)
(***************************************************************************)
AllTerms == Terms \cup SessionTerms

\* C1: reflexivity.  Whatever calls were made on the prover before,
\* equivalent(t, t) returns True for every term t: the call the session
\* just made on two equal terms returned True, and so would the next one
\* on any term, in the cache the earlier calls have left.
Reflexivity ==
    /\ (call.op = "equivalent" /\ call.expr1 = call.expr2) => result = "True"
    /\ \A t \in AllTerms :
          Outcome(equivalent(t, t, equivalence_cache)) = "True"

\* a term was compared with itself while the cache held an answer, False,
\* under the key made of its printed form twice
ReflexivityWitness ==
    /\ call.op = "equivalent"
    /\ call.expr1 = call.expr2
    /\ result = "True"
    /\ CacheKey(call.expr1, call.expr1) \in DOMAIN equivalence_cache
    /\ ~equivalence_cache[CacheKey(call.expr1, call.expr1)]

\* C2: symmetry.  At every point of a session equivalent(a, b) and
\* equivalent(b, a) return the same boolean.
Symmetry ==
    \A a \in SessionTerms, b \in SessionTerms :
        Outcome(equivalent(a, b, equivalence_cache))
            = Outcome(equivalent(b, a, equivalence_cache))

\* C3: session independence.  Every call returns what a prover with an
\* empty cache returns for the same arguments.
SessionIndependence ==
    /\ call.op = "equivalent" =>
          result = Outcome(equivalent(call.expr1, call.expr2, EmptyCache))
    /\ call.op = "parse_and_prove" =>
          result = Outcome(parse_and_prove(call.text, EmptyCache))

(***************************************************************************)
(* Properties of the two provers on abits (SpecProvers)                    *)
(***************************************************************************)
\* what equivalent of the constructed prover returns in the present cache
Answer(e1, e2) ==
    IF prover = "MtcProver"
    THEN Outcome(equivalent(e1, e2, equivalence_cache))
    ELSE Outcome(Enhanced_equivalent(e1, e2, equivalence_cache))

\* C19: abits are pairwise distinct.  With either prover and whatever it
\* was asked before, equivalent(x, y) of two abits is True when x and y
\* are the same abit and False when they are not; and EnhancedAnumProver's
\* parse_and_prove proves c == c for each abit character c written alone.
AbitsDistinct ==
    /\ \A x \in AbitTerms, y \in AbitTerms :
          Answer(x, y) = (IF x = y THEN "True" ELSE "False")
    /\ (call.op = "equivalent" /\ call.expr1 \in AbitTerms
            /\ call.expr2 \in AbitTerms)
          => result = (IF call.expr1 = call.expr2 THEN "True" ELSE "False")
    /\ (prover = "EnhancedAnumProver" /\ call.op = "parse_and_prove"
            /\ call.text \in AbitSelfTexts)
          => result = "True"
    /\ prover = "EnhancedAnumProver" =>
          \A txt \in AbitSelfTexts :
              Outcome(Enhanced_parse_and_prove(txt, equivalence_cache)) = "True"

\* the enhanced prover answered False for two different abits and then
\* proved "- == -"
AbitsDistinctWitness ==
    /\ prover = "EnhancedAnumProver"
    /\ CacheKey(AbitStart, AbitEnd) \in DOMAIN equivalence_cache
    /\ ~equivalence_cache[CacheKey(AbitStart, AbitEnd)]
    /\ call = [op |-> "parse_and_prove", text |-> <<"-", " ", EQUIV, " ", "-">>]
    /\ result = "True"

(***************************************************************************)
(* Properties of equivalent on a new prover (SpecEquiv)                    *)
(***************************************************************************)
Decided == answer # "None"

\* C4: totality.  equivalent(t1, t2) returns True or False for every pair
\* of terms and never raises; equivalent(Symbol p, Symbol q) is False.
Totality ==
    Decided =>
        /\ answer \in {"True", "False"}
        /\ (expr1 = SymP /\ expr2 = SymQ) => answer = "False"

\* the pair asked about is a and b, in either order
Asked(a, b) == (expr1 = a /\ expr2 = b) \/ (expr1 = b /\ expr2 = a)

\* C6: merger guard.  The closure REF VAL is equivalent to the root and the
\* closure REF root VAL is not, in both argument orders; of the closures
\* only REF VAL folds to the root.
MergerGuard ==
    Decided =>
        /\ Asked(RefVal, AssociativeRoot) => answer = "True"
        /\ Asked(RefRootVal, AssociativeRoot) => answer = "False"
        /\ \A c \in Closures :
              Asked(c, AssociativeRoot) => (answer = "True" <=> c = RefVal)

MergerGuardWitness ==
    /\ expr1 = AssociativeRoot
    /\ expr2 = RefRootVal
    /\ answer = "False"

\* C7: infinity-chain law.  The root is equivalent to every left-associative
\* chain of two or more roots, any two such chains are equivalent, the root
\* is not equivalent to Symbol x, and a connection whose value or innermost
\* reference is not the root is no infinity chain and is equivalent neither
\* to the root nor to a chain of roots.
InfinityChainLaw ==
    Decided =>
        /\ \A c \in RootChains : Asked(AssociativeRoot, c) => answer = "True"
        /\ (expr1 \in RootChains /\ expr2 \in RootChains) => answer = "True"
        /\ Asked(AssociativeRoot, SymX) => answer = "False"
        /\ \A c \in NearChains :
              /\ ~is_infinity_chain(c)
              /\ \A r \in {AssociativeRoot} \cup RootChains :
                    Asked(r, c) => answer = "False"

InfinityChainWitness ==
    /\ expr1 = SelfChain(AssociativeRoot, MaxChain)
    /\ expr2 = SelfChain(AssociativeRoot, 2)
    /\ answer = "True"

\* C9: closure duality under negation.  For every symbol x, -(REF x) is
\* equivalent to x VAL and -(x VAL) to REF x, in both argument orders, and
\* neither is equivalent to the closure over a different symbol.
ClosureDuality ==
    Decided =>
        \A x \in {SymA, SymX}, y \in {SymA, SymX} :
            /\ Asked(NegationExpression(ReferenceClosure(1, x)), ValueClosure(y, 1))
                  => (answer = "True" <=> x = y)
            /\ Asked(NegationExpression(ValueClosure(x, 1)), ReferenceClosure(1, y))
                  => (answer = "True" <=> x = y)

ClosureDualityWitness ==
    /\ expr1 = ValueClosure(SymX, 1)
    /\ expr2 = NegationExpression(ReferenceClosure(1, SymX))
    /\ answer = "True"

LeftChain(x, y, z) ==
    [kind |-> "EXPRESSION",
     left |-> Connection(Connection(Symbol(<<x>>), Symbol(<<y>>)),
                         Symbol(<<z>>))]

SymbolLetters == {"a", "b", "c"}

\* C5, as stated: three symbols written with nothing between them, and
\* likewise with blanks between them, parse to the left-associative chain.
JuxtapositionOfLetters ==
    parsed # NoResult =>
        \A x \in SymbolLetters, y \in SymbolLetters, z \in SymbolLetters :
            text \in {<<x, y, z>>, <<x, " ", y, " ", z>>}
                => parsed = LeftChain(x, y, z)

\* C5: left-associativity of juxtaposition.  Three symbols separated by
\* blanks parse to Connection(Connection(x, y), z); three letters written
\* with nothing between them are one symbol of three characters.
LeftAssociativity ==
    parsed # NoResult =>
        \A x \in SymbolLetters, y \in SymbolLetters, z \in SymbolLetters :
            /\ text = <<x, " ", y, " ", z>> => parsed = LeftChain(x, y, z)
            /\ text = <<x, y, z>>
                  => parsed = [kind |-> "EXPRESSION",
                               left |-> Symbol(<<x, y, z>>)]

LeftAssociativityWitness ==
    /\ text = <<"a", " ", "b", " ", "c">>
    /\ parsed = LeftChain("a", "b", "c")

\* the text with every "()" written as the root character between blanks
RECURSIVE RootSpelled(_)
RootSpelled(txt) ==
    IF Len(txt) = 0 THEN << >>
    ELSE IF Len(txt) >= 2 /\ txt[1] = "(" /\ txt[2] = ")"
         THEN <<" ", INF, " ">> \o RootSpelled(SubSeq(txt, 3, Len(txt)))
         ELSE <<txt[1]>> \o RootSpelled(Rest(txt))

RootExpression == [kind |-> "EXPRESSION", left |-> AssociativeRoot]

\* C12: empty-parenthesis law.  The text "()" parses to AssociativeRoot, as
\* the text of the root character does, and a text of symbols, parentheses
\* and arrows parses to what it parses to with each "()" in it written as
\* the root character: as an operand of a sequence or of an arrow "()" is
\* the root.
EmptyParenthesisLaw ==
    parsed # NoResult =>
        /\ text = <<"(", ")">> =>
              /\ parsed = RootExpression
              /\ parsed = parse(<<INF>>)
        /\ text \in GroupTexts => parsed = parse(RootSpelled(text))

EmptyParenthesisWitness ==
    /\ text = <<"a", ARROW, "(", ")">>
    /\ parsed = [kind |-> "EXPRESSION",
                 left |-> Connection(SymA, AssociativeRoot)]

Characters(txt) == {txt[k] : k \in DOMAIN txt}

\* C13: an unmatched parenthesis is an error.  A text with an opening
\* parenthesis and no closing parenthesis in it does not parse: the parser
\* raises.
UnmatchedParenthesisRejected ==
    (parsed # NoResult /\ text \in GroupTexts
        /\ "(" \in Characters(text) /\ ")" \notin Characters(text))
            => parsed = ValueError

\* token k of toks stands where the parser calls parse_primary: it is the
\* first token, or follows an equation operator, a negation, or an arrow
\* that follows a symbol
PrimaryPosition(toks, k) ==
    \/ k = 1
    \/ k > 1 /\ toks[k - 1].type \in {"EQUALS", "NOT_EQUALS", "NEGATION"}
    \/ k > 2 /\ toks[k - 1].type = "ARROW_UNICODE"
             /\ toks[k - 2].type = "SYMBOL"

\* some token of one of the kinds stands in a primary position
Misplaced(toks, kinds) ==
    \E k \in DOMAIN toks : toks[k].type \in kinds /\ PrimaryPosition(toks, k)

ArrowForm == ConnectionForm("ARROW")

RECURSIVE LeftNested(_)
LeftNested(t) ==
    CASE isinstance(t, "Connection") ->
            /\ ~isinstance(t.value, "Connection")
            /\ LeftNested(t.reference)
            /\ LeftNested(t.value)
      [] isinstance(t, "NegationExpression") -> LeftNested(t.expression)
      [] isinstance(t, "PowerLoopExpression") -> LeftNested(t.base)
      [] OTHER -> TRUE

\* the terms of a parse result nest on the reference side only
LeftNestedResult(res) ==
    /\ res # ValueError
    /\ LeftNested(res.left)
    /\ res.kind # "EXPRESSION" => LeftNested(res.right)

TokenKinds(toks) == {toks[k].type : k \in DOMAIN toks}

\* symbols with nothing but blanks between them
Juxtaposition(toks) == Len(toks) > 1 /\ TokenKinds(toks) = {"SYMBOL", "EOF"}

\* symbols with one arrow between each two of them
ArrowChain(toks) ==
    /\ TokenKinds(toks) = {"SYMBOL", "ARROW_UNICODE", "EOF"}
    /\ \A k \in 1..(Len(toks) - 1) :
          toks[k].type = (IF k % 2 = 1 THEN "SYMBOL" ELSE "ARROW_UNICODE")
    /\ Len(toks) % 2 = 0

FromMinus == token.value # << >> /\ token.value[1] = "-"

\* the character after that '-', "" at the end of the text
AfterMinus ==
    LET p == token.pos - Len(token.value) IN
    IF p + 1 <= Len(text) THEN text[p + 1] ELSE ""

\* the token before the one just returned, NoToken before the first
PreviousToken(toks) ==
    IF \E k \in DOMAIN toks : k > 1 /\ toks[k] = token
    THEN toks[(CHOOSE k \in DOMAIN toks : k > 1 /\ toks[k] = token) - 1]
    ELSE NoToken

\* tokens that end a primary
PrimaryEnd == {"SYMBOL", "ASSOCIATIVE_ROOT", "ABIT_END", "FORM_REF",
               "FORM_VAL", "COMPLEX_CLOSURE"}

\* C16, as stated: a '-' followed by '>' is an arrow; otherwise a '-'
\* directly after a complete primary is ABIT_DISCONNECT, and any other '-'
\* is NEGATION.
MinusByContext ==
    FromMinus =>
        /\ AfterMinus = ">" => token.type = "ARROW_UNICODE"
        /\ AfterMinus # ">" =>
              token.type =
                  (IF PreviousToken(Tokenize(text, LexerInit)).type
                          \in PrimaryEnd
                   THEN "ABIT_DISCONNECT" ELSE "NEGATION")

\* C16: resolution of '-'.  The lexer decides by the character after the
\* '-' alone: '>' makes the two an arrow; any other character but '=' and
\* a blank makes the '-' NEGATION; at the end of the text, before a blank
\* and before '=' it is ABIT_DISCONNECT.  The lexer never raises on a '-'.
MinusResolution ==
    /\ FromMinus =>
          token.type =
              (CASE AfterMinus = ">" -> "ARROW_UNICODE"
                 [] AfterMinus = "" \/ AfterMinus = "=" \/ isspace(AfterMinus)
                        -> "ABIT_DISCONNECT"
                 [] OTHER -> "NEGATION")
    /\ token.type = "ERROR" => token.value # <<"-">>

MinusResolutionWitness ==
    /\ text = <<"a", "-", "a">>
    /\ token = Token("NEGATION", <<"-">>, 3)

\* the text with "==", "!=" and "->" written as the one-character operators
RECURSIVE UnicodeSpelled(_)
UnicodeSpelled(txt) ==
    IF Len(txt) < 2 THEN txt
    ELSE LET two == SubSeq(txt, 1, 2)
             rest == SubSeq(txt, 3, Len(txt)) IN
         CASE two = <<"=", "=">> -> <<EQUIV>> \o UnicodeSpelled(rest)
           [] two = <<"!", "=">> -> <<NEQUIV>> \o UnicodeSpelled(rest)
           [] two = <<"-", ">">> -> <<ARROW>> \o UnicodeSpelled(rest)
           [] OTHER -> <<txt[1]>> \o UnicodeSpelled(Rest(txt))

\* the kinds of the tokens the lexer produces for the text, in order
KindsOf(txt) ==
    [k \in DOMAIN Tokenize(txt, LexerInit) |-> Tokenize(txt, LexerInit)[k].type]

\* C17: dual spellings are interchangeable.  A text and the text with each
\* "==", "!=" and "->" in it written as the one-character operator give the
\* same token kinds and the same parse result, also where the operator
\* follows a '-'.
DualSpellings ==
    parsed # NoResult =>
        /\ KindsOf(text) = KindsOf(UnicodeSpelled(text))
        /\ parsed = parse(UnicodeSpelled(text))

\* the text with a blank put in before the character at pos
WithBlank(txt, pos) ==
    SubSeq(txt, 1, pos - 1) \o <<" ">> \o SubSeq(txt, pos, Len(txt))

\* the lexer has returned a token of the text and stands right after it
AfterToken == token.type \notin {"NONE", "EOF", "ERROR"}

\* the blank changes neither the token kinds nor the parse result
SameWithBlank ==
    /\ KindsOf(WithBlank(text, position)) = KindsOf(text)
    /\ parse(WithBlank(text, position)) = parse(text)

NoWhitespaceToken == \A k \in DOMAIN token.value : ~isspace(token.value[k])

\* C18, as stated: no token holds whitespace, and a blank put in after any
\* token of a text changes neither the kinds of the tokens nor the parsed
\* term.
WhitespaceInsignificant ==
    /\ NoWhitespaceToken
    /\ AfterToken => SameWithBlank

\* C18: no token holds whitespace, and a blank put in after a token of a
\* text changes neither the kinds of the tokens nor the parsed term, unless
\* the token is a '-' read as NEGATION: with the blank after it the '-' is
\* ABIT_DISCONNECT.  Taking a blank out can join two tokens: a b is two
\* symbols and ab is one.
WhitespaceAfterToken ==
    /\ NoWhitespaceToken
    /\ KindsOf(<<"a", " ", "b">>) = <<"SYMBOL", "SYMBOL", "EOF">>
    /\ KindsOf(<<"a", "b">>) = <<"SYMBOL", "EOF">>
    /\ (AfterToken /\ token.type # "NEGATION") => SameWithBlank
    /\ (AfterToken /\ token.type = "NEGATION") =>
          get_next_token(WithBlank(text, position), position - 1).type
              = "ABIT_DISCONNECT"

WhitespaceWitness ==
    /\ text = <<"a", "^", "2">>
    /\ token = Token("POWER_LOOP", <<"^">>, 3)
    /\ parse(<<"a", "^", " ", "2">>)
          = [kind |-> "EXPRESSION", left |-> PowerLoopExpression(SymA, 2)]

(***************************************************************************)
(* Properties of parse_and_prove in a session (Spec)                       *)
(***************************************************************************)
\* C8: negation law.  parse_and_prove proves "-ab == ba", "-aa == aa" and
\* "-inf == inf".
NegationLaw ==
    (call.op = "parse_and_prove" /\ call.text \in NegationLawTexts)
        => result = "True"

\* C11: invalid exponents are rejected.  A formula whose power loop has the
\* exponent 0 or a negative exponent is never accepted: parse_and_prove
\* answers False for it, in every state of the session.
InvalidExponentRejected ==
    (call.op = "parse_and_prove" /\ call.text \in InvalidExponentTexts)
        => result = "False"

\* the formula with its equation operator exchanged for the other one
OtherPolarity(txt) ==
    [k \in DOMAIN txt |-> IF txt[k] = EQUIV THEN NEQUIV
                          ELSE IF txt[k] = NEQUIV THEN EQUIV
                          ELSE txt[k]]

\* C20: polarity of prove.  A formula that parses to a bare expression is
\* proved; of a formula that parses to l == r or to l != r and the same
\* formula with the other operator, parse_and_prove proves exactly one.
Polarity ==
    (call.op = "parse_and_prove" /\ parse(call.text) # ValueError) =>
        IF parse(call.text).kind = "EXPRESSION" THEN result = "True"
        ELSE (result = "True")
                 # (Outcome(parse_and_prove(OtherPolarity(call.text),
                                            equivalence_cache)) = "True")

\* the ComplexClosure terms of a term, from left to right
RECURSIVE ClosuresOf(_)
ClosuresOf(t) ==
    CASE isinstance(t, "ComplexClosure") -> <<t>>
      [] isinstance(t, "Connection") ->
            ClosuresOf(t.reference) \o ClosuresOf(t.value)
      [] isinstance(t, "NegationExpression") -> ClosuresOf(t.expression)
      [] isinstance(t, "PowerLoopExpression") -> ClosuresOf(t.base)
      [] OTHER -> << >>

ClosuresOfResult(res) ==
    ClosuresOf(res.left)
        \o (IF res.kind = "EXPRESSION" THEN << >> ELSE ClosuresOf(res.right))

\* at least two parts, each a REF or VAL form, the root or a Symbol, and at
\* most one of them a Symbol
WellFormedClosure(c) ==
    /\ Len(c.parts) >= 2
    /\ \A k \in 1..Len(c.parts) :
          c.parts[k] \in {REF, VAL, AssociativeRoot}
              \/ isinstance(c.parts[k], "Symbol")
    /\ Cardinality({k \in 1..Len(c.parts) :
                       isinstance(c.parts[k], "Symbol")}) <= 1

ClosureTokens(toks) ==
    SelectSeq(toks, LAMBDA t : t.type = "COMPLEX_CLOSURE")

\* the closures are those of the closure tokens, one for one and in order
OneClosurePerToken(closures, tokens) ==
    /\ Len(closures) = Len(tokens)
    /\ \A k \in 1..Len(closures) :
          /\ WellFormedClosure(closures[k])
          /\ Str(closures[k]) = tokens[k].value

\* C26: closures are whole and well formed.  A COMPLEX_CLOSURE token holds
\* the characters of the text it was read from, and its closure has at least
\* two parts, REF and VAL forms, roots and at most one Symbol, in the order
\* of the characters; every ComplexClosure of a parse is the closure of one
\* closure token of the text, and every closure token gives one.
ClosureIntegrity ==
    /\ token.type = "COMPLEX_CLOSURE" =>
          /\ token.value = SubSeq(text, token.pos - Len(token.value),
                                  token.pos - 1)
          /\ WellFormedClosure(parse_complex_closure(token.value))
          /\ Str(parse_complex_closure(token.value)) = token.value
    /\ parsed \notin {NoResult, ValueError} =>
          OneClosurePerToken(ClosuresOfResult(parsed),
                             ClosureTokens(Tokenize(text, LexerInit)))

\* the text REF a VAL root is parsed to one closure of four parts
ClosureIntegrityWitness ==
    /\ text = <<MALE, "a", FEMALE, INF>>
    /\ token = Token("COMPLEX_CLOSURE", <<MALE, "a", FEMALE, INF>>, 5)
    /\ parsed = [kind |-> "EXPRESSION",
                 left |-> ComplexClosure(<<REF, SymA, VAL, AssociativeRoot>>)]

\* a call of get_next_token with the cursor at p either raises, or returns
\* EOF with the cursor at the end, where every later call returns EOF again,
\* or returns a token and leaves the cursor further on, within the text
LexerStep(txt, p) ==
    LET t == get_next_token(txt, p) IN
    CASE t.type = "ERROR" -> TRUE
      [] t.type = "EOF" ->
            /\ t.pos = Len(txt) + 1
            /\ get_next_token(txt, t.pos) = t
      [] OTHER -> t.pos > p /\ t.pos <= Len(txt) + 1

\* r, returned by a parse function entered at token i, either is a
\* ValueError or leaves the parser on a later token
Consumes(toks, i, r) == r.ok => (r.i > i /\ r.i <= Len(toks))

\* every production entered at any token consumes at least one token
ParserStep(toks) ==
    \A i \in 1..Len(toks) :
        /\ Consumes(toks, i, parse_primary(toks, i))
        /\ Consumes(toks, i, parse_power_loop(toks, i))
        /\ Consumes(toks, i, parse_sequence(toks, i))
        /\ Consumes(toks, i, parse_connection(toks, i))

\* C29: lexing and parsing terminate.  From every cursor position of the
\* text a get_next_token call that returns a token other than EOF has moved
\* the cursor forward by at least one character, and after EOF every call
\* returns EOF; the lexer's own cursor is never past the end of the text;
\* every production of the parser consumes at least one token, and parse
\* ends with a result tuple or a ValueError.
LexParseTermination ==
    /\ \A p \in 1..(Len(text) + 1) : LexerStep(text, p)
    /\ position \in 1..(Len(text) + 1)
    /\ token.type = "EOF" => position = Len(text) + 1
    /\ parsed # NoResult =>
          /\ ParserStep(Tokenize(text, LexerInit))
          /\ \/ parsed = ValueError
             \/ parsed.kind \in {"EXPRESSION", "EQUATION", "NOT_EQUATION"}

\* the lexer has reached the end of "(a)a" and the text is parsed
LexParseTerminationWitness ==
    /\ text = <<"(", "a", ")", "a">>
    /\ token = Token("EOF", << >>, 5)
    /\ position = 5
    /\ parsed = [kind |-> "EXPRESSION", left |-> Connection(SymA, SymA)]

(***************************************************************************)
(* Properties of process_file (SpecFile)                                   *)
(***************************************************************************)
\* the line has a character that is no whitespace, and the first such
\* character is not '#'
IsFormulaLine(line) ==
    \E k \in 1..Len(line) :
        /\ ~isspace(line[k]) /\ line[k] # "#"
        /\ \A j \in 1..(k - 1) : isspace(line[j])

\* the numbers of the formula lines among the first n lines, in order
FormulaLineNumbers(ls, n) ==
    SelectSeq([k \in 1..n |-> k], LAMBDA k : IsFormulaLine(ls[k]))

\* what one prover answers to the formulas, asked one after the other
RECURSIVE SessionAnswers(_, _, _)
SessionAnswers(ls, numbers, cache) ==
    IF numbers = << >> THEN << >>
    ELSE <<parse_and_prove(strip(ls[numbers[1]]), cache).val>>
         \o SessionAnswers(ls, Rest(numbers),
                           parse_and_prove(strip(ls[numbers[1]]), cache).cache)

\* the numbers of the lines answered False
FailedOf(numbers, answers) ==
    LET failing == SelectSeq([k \in 1..Len(numbers) |-> k],
                             LAMBDA k : ~answers[k]) IN
    [k \in 1..Len(failing) |-> numbers[failing[k]]]

\* tenths is 100*p/n percent to the nearest tenth, and 0 when n = 0
IsPercentage(tenths, p, n) ==
    IF n = 0 THEN tenths = 0
    ELSE /\ 2 * (tenths * n - 1000 * p) <= n
         /\ 2 * (1000 * p - tenths * n) <= n

\* the counters are those of the first n lines of ls
CountsLines(ls, n) ==
    LET numbers == FormulaLineNumbers(ls, n)
        answers == SessionAnswers(ls, numbers, EmptyCache) IN
    /\ total = Len(numbers)
    /\ failed_lines = FailedOf(numbers, answers)
    /\ passed = Cardinality({k \in 1..Len(answers) : answers[k]})
    /\ passed + Len(failed_lines) = total

\* C21: batch resilience and counting.  After any number of loop iterations
\* total is the number of formula lines (not blank, not starting with '#')
\* seen so far, passed the number of them parse_and_prove answered True on
\* the file's prover, failed_lines the numbers of the others in order, and
\* passed + len(failed_lines) = total; no line stops the loop before the last
\* one.  The report is made after all N formula lines: it gives total = N,
\* 100*passed/N percent (0 for N = 0), and process_file returns True iff no
\* line failed.
BatchCounting ==
    /\ line_num \in 0..Len(FileLines(file_content))
    /\ CountsLines(FileLines(file_content), line_num)
    /\ report # NoReport =>
         /\ line_num = Len(FileLines(file_content))
         /\ report.total = total /\ report.passed = passed
         /\ report.failed_lines = failed_lines
         /\ IsPercentage(report.percentage, passed, total)
         /\ report.returned = (passed = total)

\* a file whose first formula line cannot be lexed and whose two other lines
\* hold has been processed to the end
BatchCountingWitness ==
    /\ report # NoReport
    /\ FileLines(file_content)[1] = <<"a", "?">>
    /\ report.total = 3 /\ report.passed = 2 /\ report.failed_lines = <<1>>
    /\ report.percentage = 667
    /\ report.returned = FALSE

(***************************************************************************)
(* Properties of the laws of the engine (SpecLaws)                         *)
(***************************************************************************)
\* C22: closure unfolding at every depth.  For every symbol r and k >= 1 the
\* closure r VAL^k is equivalent to Connection(r VAL^(k-1), r VAL^k), and for
\* every symbol v and k >= 1 the closure REF^k v is equivalent to
\* Connection(REF^k v, REF^(k-1) v), in either order of the arguments.
ClosureUnfolding ==
    (answer # "None" /\ <<expr1, expr2>> \in UnfoldingPairs) => answer = "True"

\* the term a run of closure parts stands for
PartsTerm(parts) == IF Len(parts) = 1 THEN parts[1] ELSE ComplexClosure(parts)

\* k unfolds the closure c by one step: c with its last VAL taken off, then
\* c; or c, then c with its first REF taken off
OneStepUnfolding(c, k) ==
    \/ /\ Last(c.parts) = VAL
       /\ k = Connection(PartsTerm(Front(c.parts)), c)
    \/ /\ c.parts[1] = REF
       /\ k = Connection(c, PartsTerm(Rest(c.parts)))

\* the axioms that relate the closure c to the connection k: the one-step
\* unfolding, the grouped decomposition of REF root VAL, its nested unfolding,
\* the meta self-closure of REF root, and REF VAL = root = a chain of roots
StatedAxiom(c, k) ==
    \/ OneStepUnfolding(c, k)
    \/ c = RefRootVal /\ k = Connection(RefRoot, VAL)
    \/ c = RefRootVal /\ k = Connection(RefRoot, c)
    \/ c = RefRootVal /\ k = Connection(Connection(RefRoot, AssociativeRoot), c)
    \/ c = RefRoot /\ k = Connection(c, AssociativeRoot)
    \/ c = RefVal /\ is_infinity_chain(k)

\* C23: soundness of the closure rules.  equivalent answers True for a
\* ComplexClosure and a Connection, in either order, only when an axiom
\* relates the two.
ClosureSoundness ==
    (answer = "True" /\ <<expr1, expr2>> \in SoundnessPairs) =>
        IF isinstance(expr1, "ComplexClosure")
        THEN StatedAxiom(expr1, expr2)
        ELSE StatedAxiom(expr2, expr1)

\* C24: congruence.  Whenever a new prover holds a equivalent to a' and b
\* equivalent to b', it holds Connection(a, b) equivalent to
\* Connection(a', b').
Congruence ==
    (/\ answer # "None"
     /\ <<expr1, expr2>> \in CongruencePairs
     /\ equivalent(expr1.reference, expr2.reference, EmptyCache).val
     /\ equivalent(expr1.value, expr2.value, EmptyCache).val)
        => answer = "True"

\* C25: existence axiom for symbols of several characters.  A Symbol whose
\* name has two or more characters is equivalent to the left-nested chain of
\* its one-character symbols, whatever the characters, and to no
\* right-nested chain that differs from it.
ExistenceOfSymbols ==
    (answer # "None" /\ <<expr1, expr2>> \in ExistencePairs) =>
        LET sym == IF isinstance(expr1, "Symbol") THEN expr1 ELSE expr2
            chain == IF isinstance(expr1, "Symbol") THEN expr2 ELSE expr1 IN
        answer = IF chain = LeftChainOf(sym.name) THEN "True" ELSE "False"

(***************************************************************************)
(* Depth of recursion (SpecEquiv)                                          *)
(***************************************************************************)
\* the depths a maximum could be set to, below the largest exponent asked
DepthLimits == 1..(MaxExp - 1)

\* C27: bounded depth.  There is a maximum depth such that expanding a power
\* loop whose exponent exceeds it fails with ResourceLimitExceeded.
BoundedDepth ==
    \E limit \in DepthLimits :
        (/\ answer # "None"
         /\ isinstance(expr1, "PowerLoopExpression")
         /\ expr1.exponent > limit)
            => answer = "ResourceLimitExceeded"

(***************************************************************************)
(* The relation decided by the engine (SpecEquiv)                          *)
(***************************************************************************)
\* what a new prover answers to equivalent(a, b)
Holds(a, b) == Outcome(equivalent(a, b, EmptyCache)) = "True"

\* C28: transitivity.  If a new prover holds expr1 equivalent to expr2, and
\* expr2 equivalent to a term c, it holds expr1 equivalent to c.
Transitivity ==
    answer = "True" =>
        \A c \in Terms : Holds(expr2, c) => Holds(expr1, c)

(***************************************************************************)
(* Termination of resolve_comma_context (SpecComma)                        *)
(***************************************************************************)
\* C30: the scan terminates.  Every iteration of the scanning loop strictly
\* increases the index i, an escape opener without a closer included, so
\* constructing an MTCOriginalLexer never hangs.
IndexAdvances ==
    [][iterations' > iterations => scan_i' > scan_i]_vars

====
